---- MODULE Spec2Model ----
(***************************************************************************)
(* Model of the synchronisation engine of polymarket-automation-script:    *)
(* the document store handler, the paginated fetchers, the bootstrap and   *)
(* the monitoring loop of app.py and monitor_markets.py.                   *)
(*                                                                         *)
(* A Python dict is a function from the field names it holds to values; a  *)
(* collection is the set of its documents (the store's own _id field is    *)
(* left out: no code of the repository reads it).                          *)
(***************************************************************************)
EXTENDS Integers, Sequences, FiniteSets, TLC

\* ------------------------------------------------------------ bounds
\* Event ids are 1..MaxId.
MaxId == 2
\* Market slugs are the first MaxSlug names of SlugNames.
MaxSlug == 3
\* Longest batch a direct caller hands to save_events / save_markets.
MaxBatch == 2
\* Longest remote collection (events, or markets) the remote ever serves.
MaxRemote == 3
\* Page size of the events API: Config.BATCH_SIZE, scaled down from 500.
BATCH_SIZE == 2
\* Page size the markets API itself serves per cursor (500 at the venue).
ClobPageSize == 2
\* Failed passes in a row that the environment injects before it lets one pass.
MaxStreak == 7

\* ------------------------------------------------------------ program constants
max_consecutive_failures == 5
base_retry_interval == 60
monitoring_interval == 60
\* "LTE=" is base64 of "-1": a cursor is modelled by the offset it encodes.
END_CURSOR == -1
ConnectionErrorWait == 60
TimeoutWait == 30
ServerErrorWait == 120

\* ------------------------------------------------------------ records
SlugNames == <<"A", "B", "C", "D", "E">>
Slugs == {SlugNames[i] : i \in 1..MaxSlug}
EventIds == 1..MaxId

\* Date strings as the remote sends them: one that datetime.fromisoformat
\* parses once 'Z' is replaced, one that it rejects with ValueError.
IsoDate == "2024-01-01T00:00:00Z"
BadDate == "not-a-date"
ParsedIsoDate == "datetime(2024,1,1,0,0,tzinfo=utc)"

Ev(i, t) == ("id" :> i) @@ ("slug" :> "s") @@ ("title" :> t)
Mk(k, q) == ("market_slug" :> k) @@ ("question" :> q)

\* An event without title, one without id, one whose date does not parse.
EventNoTitle == ("id" :> 1) @@ ("slug" :> "s")
EventNoId == ("slug" :> "s") @@ ("title" :> "t1")
EventBadDate == Ev(1, "t1") @@ ("endDate" :> BadDate)
EventNoTitleBadDate == EventNoTitle @@ ("endDate" :> BadDate)

\* A market without question, one without slug, one with the empty slug.
MarketNoQuestion == ("market_slug" :> "A")
MarketNoSlug == ("question" :> "q1")
MarketEmptySlug == Mk("", "q1")

\* The records a direct caller's batch is made of: per key a record with an
\* optional field and one without it, and the malformed ones.
EventSamples ==
    UNION {{ Ev(i, "t1") @@ ("endDate" :> IsoDate), Ev(i, "t2") } : i \in EventIds}
    \cup {EventNoTitle, EventNoId, EventBadDate, EventNoTitleBadDate}

MarketSamples ==
    UNION {{ Mk(k, "q1") @@ ("description" :> "d"), Mk(k, "q2") } : k \in Slugs}
    \cup {MarketNoQuestion, MarketNoSlug, MarketEmptySlug}

\* The records the remote collections are made of.
RemoteEventSamples ==
    {Ev(i, "t1") @@ ("endDate" :> IsoDate) : i \in EventIds}
    \cup {EventNoTitle, EventNoId, EventNoTitleBadDate}

RemoteMarketSamples ==
    {Mk(k, "q1") : k \in Slugs} \cup {MarketNoQuestion, MarketNoSlug, MarketEmptySlug}

SeqsUpTo(S, n) == UNION {[1..k -> S] : k \in 0..n}
EventBatches == SeqsUpTo(EventSamples, MaxBatch)
MarketBatches == SeqsUpTo(MarketSamples, MaxBatch)

Min(a, b) == IF a < b THEN a ELSE b

\* ------------------------------------------------------------ state
VARIABLES
    script,               \* which program runs: "app", "monitor_markets" or "get_markets"
                          \* ("store": a bare handler)
    pc,                   \* the program's position in main()
    client,               \* MongoDBHandler.client: TRUE when _connect succeeded
    events_collection,    \* the documents of db['events']
    markets_collection,   \* the documents of db['markets']
    remote_events,        \* what GET /events serves, in the remote's order
    remote_markets,       \* what the markets API serves, in the remote's order
    offset,               \* fetch_events: offset
    all_events,           \* fetch_events: all_events
    next_cursor,          \* fetch_markets: next_cursor
    all_markets,          \* fetch_markets: all_markets
    fetch_caller,         \* who called fetch_markets: "initialize" or "get_latest_markets"
                          \* ("main": the loop is get_markets.py's own)
    existing_market_slugs,\* get_latest_markets: existing_market_slugs
    latest_events,        \* start_monitoring: latest_events
    latest_markets,       \* start_monitoring: latest_markets
    consecutive_failures, \* start_monitoring: consecutive_failures
    streak,               \* failed passes since the last successful one, and their waits
    step,                 \* what the last step did: its call, its sleep, what it printed
    subscribed_chats,     \* telegram_bot.py: subscribed_chats
    previous_markets,     \* telegram_bot.py: the keys of previous_markets, or NoSnapshot
    gamma_markets,        \* what GET /markets serves to the bot now
    now,                  \* datetime.now(timezone.utc), in seconds
    job,                  \* check_new_markets: where the running job is, and its locals
    sent,                 \* how many alerts each chat was sent for each market id
    discovered,           \* the (chat, market id) pairs of the markets found new so far
    conversations,        \* order_handler: the state of each (chat, user) conversation
    user_data,            \* context.user_data of each user
    orders,               \* the documents of db.orders, in insertion order
    entered,              \* what the user chose and typed in each conversation so far
    bot_step,             \* what the bot's last handler did
    liquidity_monitoring  \* the documents of db.liquidity_monitoring

notifier_vars == <<subscribed_chats, previous_markets, gamma_markets, now, job, sent,
                   discovered>>
order_vars == <<conversations, user_data, orders, entered>>
bot_vars == <<notifier_vars, order_vars, bot_step, liquidity_monitoring>>

vars == <<script, pc, client, events_collection, markets_collection, remote_events,
          remote_markets, offset, all_events, next_cursor, all_markets, fetch_caller,
          existing_market_slugs, latest_events, latest_markets, consecutive_failures,
          streak, step, bot_vars>>

store_vars == <<client, events_collection, markets_collection>>
remote_vars == <<remote_events, remote_markets>>
fetch_events_vars == <<offset, all_events>>
fetch_markets_vars == <<next_cursor, all_markets, fetch_caller>>
monitor_vars == <<existing_market_slugs, latest_events, latest_markets,
                  consecutive_failures, streak>>

\* No failed pass since the last successful one.
NoStreak == [n |-> 0, kinds |-> {}, wait |-> 0]

\* A step that calls nothing, sleeps nothing and prints nothing.
NoStep ==
    [op |-> "none", batch |-> <<>>, before |-> {}, skipped |-> {}, save_error |-> FALSE,
     exc |-> "none", slept |-> 0, request |-> END_CURSOR, missing |-> <<>>, alert |-> FALSE,
     ended |-> NoStreak, response |-> "none"]

\* ------------------------------------------------------------ the bot at rest
\* previous_markets = None: no poll has recorded a snapshot yet.
NoSnapshot == {"<None>"}

\* No check_new_markets job is running.
IdleJob ==
    [pc |-> "idle", current |-> {}, now |-> 0, todo |-> {}, market |-> "", chat |-> 0,
     iter_size |-> 0, visited |-> {}, started |-> {}, delivered |-> {}, failed |-> {},
     changed |-> FALSE]

\* A fan-out that has not run.
NoFanout == [market |-> "", started |-> {}, delivered |-> {}, failed |-> {}, changed |-> FALSE]

\* A handler that did nothing.
NoBotStep ==
    [op |-> "none", exc |-> "none", chat |-> 0, market |-> "", delivered |-> FALSE,
     fanout |-> NoFanout,
     key |-> <<0, 0>>, text |-> "", before |-> "", reply |-> "", placed |-> FALSE,
     submitted |-> FALSE, api |-> "none", order |-> <<>>, insert_failed |-> FALSE,
     saved |-> FALSE, status |-> "", success |-> FALSE, remote_error |-> "", told |-> "",
     query |-> <<>>]

\* The bot's variables in the runs of the other programs: telegram_bot.py is
\* not running.
BotIdle ==
    /\ subscribed_chats = {}
    /\ previous_markets = NoSnapshot
    /\ gamma_markets = {}
    /\ now = 0
    /\ job = IdleJob
    /\ sent = <<>>
    /\ discovered = {}
    /\ conversations = <<>>
    /\ user_data = <<>>
    /\ orders = <<>>
    /\ entered = <<>>
    /\ bot_step = NoBotStep
    /\ liquidity_monitoring = {}

\* ------------------------------------------------------------ schema
validate_event(event_data) ==
    \A field \in {"id", "slug", "title"} : field \in DOMAIN event_data

validate_market(market_data) ==
    \A field \in {"question", "market_slug"} : field \in DOMAIN market_data

\* Python truthiness of a field value (the empty string is falsy).
Truthy(v) == v # ""

\* ------------------------------------------------------------ dates
date_fields == {"startDate", "creationDate", "endDate", "createdAt", "updatedAt", "closedTime"}

\* datetime.fromisoformat(s.replace('Z', '+00:00')) raises ValueError on s.
FromIsoFails(s) == s # IsoDate
fromisoformat(s) == IF s = IsoDate THEN ParsedIsoDate ELSE s

DateValues(rec) == {rec[f] : f \in {g \in DOMAIN rec \cap date_fields : Truthy(rec[g])}}

\* _process_dates raises on the batch: some date of some record does not parse.
ProcessDatesRaises(data) ==
    \E i \in 1..Len(data) : \E s \in DateValues(data[i]) : FromIsoFails(s)

ProcessRecord(rec) ==
    [f \in DOMAIN rec |->
        IF f \in date_fields /\ Truthy(rec[f]) THEN fromisoformat(rec[f]) ELSE rec[f]]

_process_dates(data) == [i \in 1..Len(data) |-> ProcessRecord(data[i])]

\* ------------------------------------------------------------ store
Matches(coll, key, value) == {d \in coll : key \in DOMAIN d /\ d[key] = value}

\* count_documents({key: {'$in': values}})
CountIn(coll, key, values) ==
    Cardinality({d \in coll : key \in DOMAIN d /\ \E i \in 1..Len(values) : d[key] = values[i]})

\* {'$set': new}: the fields of new are written over old, the others stay.
SetFields(old, new) == new @@ old

\* Mutant of update_one: an insert_one of the record, whatever the collection
\* holds under its key.
insert_one(coll, key, value, doc) == coll \cup {SetFields((key :> value), doc)}

\* collection.update_one({key: value}, {'$set': doc}, upsert=True)
update_one(coll, key, value, doc) ==
    IF Matches(coll, key, value) # {}
    THEN LET old == CHOOSE d \in Matches(coll, key, value) : TRUE
         IN  (coll \ {old}) \cup {SetFields(old, doc)}
    ELSE coll \cup {SetFields((key :> value), doc)}

\* The for loop of save_events over the processed batch, from record i on.
RECURSIVE SaveEventsLoop(_, _, _)
SaveEventsLoop(coll, data, i) ==
    IF i > Len(data) THEN coll
    ELSE IF validate_event(data[i])
         THEN SaveEventsLoop(update_one(coll, "id", data[i]["id"], data[i]), data, i + 1)
         ELSE SaveEventsLoop(coll, data, i + 1)

\* The for loop of save_markets over the processed batch, from record i on.
RECURSIVE SaveMarketsLoop(_, _, _)
SaveMarketsLoop(coll, data, i) ==
    IF i > Len(data) THEN coll
    ELSE IF validate_market(data[i])
         THEN SaveMarketsLoop(
                  update_one(coll, "market_slug", data[i]["market_slug"], data[i]), data, i + 1)
         ELSE SaveMarketsLoop(coll, data, i + 1)

\* save_events / save_markets catch an exception of their try block.
\* monitor_markets.py's save_markets does not call _process_dates.
SaveEventsRaises(events_data) == ProcessDatesRaises(events_data)
SaveMarketsRaises(markets_data) == script # "monitor_markets" /\ ProcessDatesRaises(markets_data)

\* What save_events leaves in db['events'].
EventsAfterSave(coll, events_data) ==
    IF ~client \/ SaveEventsRaises(events_data) THEN coll
    ELSE SaveEventsLoop(coll, _process_dates(events_data), 1)

\* What save_markets leaves in db['markets'].
MarketsAfterSave(coll, markets_data) ==
    IF ~client \/ SaveMarketsRaises(markets_data) THEN coll
    ELSE SaveMarketsLoop(coll, _process_dates(markets_data), 1)

\* The records save_events prints as "Skipping event with invalid data".
EventsSkipped(events_data) ==
    IF ~client \/ SaveEventsRaises(events_data) THEN {}
    ELSE {_process_dates(events_data)[i] : i \in {j \in 1..Len(events_data) :
                                                   ~validate_event(events_data[j])}}

\* The records save_markets prints as "Skipping market with invalid data".
MarketsSkipped(markets_data) ==
    IF ~client \/ SaveMarketsRaises(markets_data) THEN {}
    ELSE {_process_dates(markets_data)[i] : i \in {j \in 1..Len(markets_data) :
                                                    ~validate_market(markets_data[j])}}

\* save_events(events_data), called by the step named op.
save_events(op, events_data) ==
    /\ events_collection' = EventsAfterSave(events_collection, events_data)
    /\ step' = [NoStep EXCEPT !.op = op, !.batch = events_data,
                              !.before = events_collection,
                              !.skipped = EventsSkipped(events_data),
                              !.save_error = client /\ SaveEventsRaises(events_data)]
    /\ UNCHANGED <<client, markets_collection>>

\* save_markets(markets_data), called by the step named op.
save_markets(op, markets_data) ==
    /\ markets_collection' = MarketsAfterSave(markets_collection, markets_data)
    /\ step' = [NoStep EXCEPT !.op = op, !.batch = markets_data,
                              !.before = markets_collection,
                              !.skipped = MarketsSkipped(markets_data),
                              !.save_error = client /\ SaveMarketsRaises(markets_data)]
    /\ UNCHANGED <<client, events_collection>>

\* ------------------------------------------------------------ the store alone
\* A connected handler over an empty database, called by a caller with any
\* batch. The two collections are independent (each save_* writes one of
\* them), so the caller drives one collection at a time.
StoreInit ==
    /\ script = "store"
    /\ pc = "idle"
    /\ client = TRUE
    /\ events_collection = {}
    /\ markets_collection = {}
    /\ remote_events = <<>>
    /\ remote_markets = <<>>
    /\ offset = 0
    /\ all_events = <<>>
    /\ next_cursor = 0
    /\ all_markets = <<>>
    /\ fetch_caller = "none"
    /\ existing_market_slugs = {}
    /\ latest_events = <<>>
    /\ latest_markets = <<>>
    /\ consecutive_failures = 0
    /\ streak = NoStreak
    /\ step = NoStep
    /\ BotIdle

program_vars == <<script, pc, remote_vars, fetch_events_vars, fetch_markets_vars, monitor_vars,
                  bot_vars>>

CallSaveEvents ==
    /\ step.op = "none"
    /\ markets_collection = {}
    /\ \E batch \in EventBatches : save_events("save_events", batch)
    /\ UNCHANGED program_vars

CallSaveMarkets ==
    /\ step.op = "none"
    /\ events_collection = {}
    /\ \E batch \in MarketBatches : save_markets("save_markets", batch)
    /\ UNCHANGED program_vars

\* The call returns: what it printed scrolls away.
Return ==
    /\ step.op # "none"
    /\ step' = NoStep
    /\ UNCHANGED <<store_vars, program_vars>>

StoreNext == CallSaveEvents \/ CallSaveMarkets \/ Return

SpecStore == StoreInit /\ [][StoreNext]_vars

\* ------------------------------------------------------------ the remote
\* GET /events?offset=o&limit=l
EventsPage(o, l) == SubSeq(remote_events, o + 1, Min(o + l, Len(remote_events)))

\* clob_client.get_markets(next_cursor=c): the page, and the cursor after it
\* ("LTE=" once the collection is exhausted).
MarketsPage(c) == SubSeq(remote_markets, c + 1, Min(c + ClobPageSize, Len(remote_markets)))
MarketsNextCursor(c) ==
    IF c + ClobPageSize >= Len(remote_markets) THEN END_CURSOR ELSE c + ClobPageSize

\* Exceptions a request of each fetcher raises in the model.
EventsRequestExceptions == {"ConnectionError", "Timeout", "Exception"}
MarketsRequestExceptions == {"ConnectionError", "TimeoutError", "Exception"}

\* ------------------------------------------------------------ bootstrap
\* initialize_if_needed, events half; with no client the handler has no
\* events_collection attribute and the lookup raises AttributeError.
InitializeEventsIfNeeded ==
    /\ pc = "init_events"
    /\ IF ~client
       THEN /\ pc' = "crashed"
            /\ step' = [NoStep EXCEPT !.op = "initialize_if_needed", !.exc = "AttributeError"]
            /\ UNCHANGED fetch_events_vars
       ELSE IF Cardinality(events_collection) = 0
       THEN /\ pc' = "fetch_events"
            /\ offset' = 0
            /\ all_events' = <<>>
            /\ step' = [NoStep EXCEPT !.op = "initialize_if_needed"]
       ELSE /\ pc' = "init_markets"
            /\ step' = [NoStep EXCEPT !.op = "initialize_if_needed"]
            /\ UNCHANGED fetch_events_vars
    /\ UNCHANGED <<bot_vars, script, store_vars, remote_vars, fetch_markets_vars, monitor_vars>>

\* Mutant of FetchEventsPage: the loop also stops at a page shorter than the
\* page size, before it keeps the page.
FetchEventsPageStopsShort ==
    /\ pc = "fetch_events"
    /\ LET current_events == EventsPage(offset, BATCH_SIZE)
       IN  IF Len(current_events) < BATCH_SIZE
           THEN pc' = "events_fetched" /\ UNCHANGED fetch_events_vars
           ELSE /\ all_events' = all_events \o current_events
                /\ offset' = offset + BATCH_SIZE
                /\ pc' = pc
    /\ step' = [NoStep EXCEPT !.op = "fetch_events", !.request = offset]
    /\ UNCHANGED <<bot_vars, script, store_vars, remote_vars, fetch_markets_vars, monitor_vars>>

\* One iteration of fetch_events' loop whose request succeeds.
FetchEventsPage ==
    /\ pc = "fetch_events"
    /\ LET current_events == EventsPage(offset, BATCH_SIZE)
       IN  IF current_events = <<>>
           THEN pc' = "events_fetched" /\ UNCHANGED fetch_events_vars
           ELSE /\ all_events' = all_events \o current_events
                /\ offset' = offset + BATCH_SIZE
                /\ pc' = pc
    /\ step' = [NoStep EXCEPT !.op = "fetch_events", !.request = offset]
    /\ UNCHANGED <<bot_vars, script, store_vars, remote_vars, fetch_markets_vars, monitor_vars>>

\* The sleep of fetch_events' except clause for exc; 0 for the clause that re-raises.
FetchEventsWait(exc) ==
    CASE exc = "ConnectionError" -> ConnectionErrorWait
      [] exc = "Timeout" -> TimeoutWait
      [] exc = "HTTPError" -> ServerErrorWait
      [] OTHER -> 0

\* fetch_events' except clause for exc retries (continue) rather than re-raises.
FetchEventsRetries(exc) == exc \in {"ConnectionError", "Timeout", "HTTPError"}

\* One iteration of fetch_events' loop whose request raises.
FetchEventsRaises ==
    /\ pc = "fetch_events"
    /\ \E exc \in EventsRequestExceptions :
          /\ pc' = IF FetchEventsRetries(exc) THEN pc ELSE "crashed"
          /\ step' = [NoStep EXCEPT !.op = "fetch_events", !.request = offset, !.exc = exc,
                                    !.slept = FetchEventsWait(exc)]
    /\ UNCHANGED <<bot_vars, script, store_vars, remote_vars, fetch_events_vars, fetch_markets_vars,
                   monitor_vars>>

\* What a GET /events answered with a 5xx status carries as its body: the
\* error page of a gateway, which is not JSON, or an empty JSON value.
ServerErrorBodies == {"not json", "empty json"}

\* One iteration of fetch_events' loop whose request is answered with a 5xx
\* status. requests.get returns the response, nothing calls
\* raise_for_status, and response.json() parses the body: a body that is not
\* JSON raises JSONDecodeError, which only the last clause catches, and that
\* one re-raises; an empty JSON value is "not current_events" and breaks.
FetchEventsServerError ==
    /\ pc = "fetch_events"
    /\ \E body \in ServerErrorBodies :
          IF body = "not json"
          THEN /\ pc' = "crashed"
               /\ step' = [NoStep EXCEPT !.op = "fetch_events", !.request = offset,
                                         !.response = "5xx", !.exc = "JSONDecodeError"]
          ELSE /\ pc' = "events_fetched"
               /\ step' = [NoStep EXCEPT !.op = "fetch_events", !.request = offset,
                                         !.response = "5xx"]
    /\ UNCHANGED <<bot_vars, script, store_vars, remote_vars, fetch_events_vars,
                   fetch_markets_vars, monitor_vars>>

\* EventHandler.initialize after fetch_events returned.
EventInitialize ==
    /\ pc = "events_fetched"
    /\ save_events("EventHandler.initialize", all_events)
    /\ pc' = "init_markets"
    /\ all_events' = <<>>
    /\ UNCHANGED <<bot_vars, script, remote_vars, offset, fetch_markets_vars, monitor_vars>>

\* initialize_if_needed, markets half (all of it in monitor_markets.py).
InitializeMarketsIfNeeded ==
    /\ pc = "init_markets"
    /\ IF ~client
       THEN /\ pc' = "crashed"
            /\ step' = [NoStep EXCEPT !.op = "initialize_if_needed", !.exc = "AttributeError"]
            /\ UNCHANGED fetch_markets_vars
       ELSE IF Cardinality(markets_collection) = 0
       THEN /\ pc' = "fetch_markets"
            /\ next_cursor' = 0
            /\ all_markets' = <<>>
            /\ fetch_caller' = "initialize"
            /\ step' = [NoStep EXCEPT !.op = "initialize_if_needed"]
       ELSE /\ pc' = "monitor"
            /\ step' = [NoStep EXCEPT !.op = "initialize_if_needed"]
            /\ UNCHANGED fetch_markets_vars
    /\ UNCHANGED <<bot_vars, script, store_vars, remote_vars, fetch_events_vars, monitor_vars>>

\* One iteration of fetch_markets' loop (and of get_markets.py's) whose request
\* succeeds.
FetchMarketsPage ==
    /\ pc = "fetch_markets"
    /\ all_markets' = all_markets \o MarketsPage(next_cursor)
    /\ next_cursor' = MarketsNextCursor(next_cursor)
    /\ pc' = IF MarketsNextCursor(next_cursor) # END_CURSOR THEN pc
             ELSE IF fetch_caller = "initialize" THEN "markets_fetched"
             ELSE IF fetch_caller = "main" THEN "done"
             ELSE "filter_markets"
    /\ step' = [NoStep EXCEPT !.op = "fetch_markets", !.request = next_cursor]
    /\ UNCHANGED <<bot_vars, script, store_vars, remote_vars, fetch_events_vars, fetch_caller,
                   monitor_vars>>

\* The sleep of fetch_markets' except clause for exc.
FetchMarketsWait(exc) ==
    IF exc \in {"ConnectionError", "TimeoutError"} THEN ConnectionErrorWait ELSE ServerErrorWait

\* fetch_markets' except clause for exc retries (continue) rather than re-raises.
FetchMarketsRetries(exc) == TRUE

\* One iteration of fetch_markets' loop whose request raises.
FetchMarketsRaises ==
    /\ pc = "fetch_markets"
    /\ \E exc \in MarketsRequestExceptions :
          /\ pc' = IF FetchMarketsRetries(exc) THEN pc ELSE "crashed"
          /\ step' = [NoStep EXCEPT !.op = "fetch_markets", !.request = next_cursor,
                                    !.exc = exc, !.slept = FetchMarketsWait(exc)]
    /\ UNCHANGED <<bot_vars, script, store_vars, remote_vars, fetch_events_vars, fetch_markets_vars,
                   monitor_vars>>

\* MarketHandler.initialize after fetch_markets returned.
MarketInitialize ==
    /\ pc = "markets_fetched"
    /\ save_markets("MarketHandler.initialize", all_markets)
    /\ pc' = "monitor"
    /\ all_markets' = <<>>
    /\ UNCHANGED <<bot_vars, script, remote_vars, fetch_events_vars, next_cursor, fetch_caller,
                   monitor_vars>>

\* ------------------------------------------------------------ monitoring
\* Mutant of RetryInterval: the interval grows linearly, 2 * n for 2 ** n.
RetryIntervalLinear(failures) == base_retry_interval * (2 * failures)

\* retry_interval = base_retry_interval * (2 ** consecutive_failures)
RetryInterval(failures) == base_retry_interval * (2 ^ failures)

\* consecutive_failures after the clause "except requests.exceptions.ConnectionError".
ConnectionErrorCounter(failures) == failures + 1

\* The clause "except Exception" prints CRITICAL, and consecutive_failures after it.
ExceptionAlerts(failures) == failures + 1 >= max_consecutive_failures
ExceptionCounter(failures) == IF ExceptionAlerts(failures) THEN 0 ELSE failures + 1

\* Mutant of PassFailed: only the connectivity clause is there, any other
\* exception leaves start_monitoring.
PassFailedUncaught(op, exc) ==
    /\ consecutive_failures' =
           IF exc = "ConnectionError" THEN ConnectionErrorCounter(consecutive_failures)
           ELSE consecutive_failures
    /\ streak' = [n |-> streak.n + 1, kinds |-> streak.kinds \cup {exc},
                  wait |-> streak.wait + RetryInterval(consecutive_failures + 1)]
    /\ step' = [NoStep EXCEPT !.op = op, !.exc = exc,
                              !.slept = IF exc = "ConnectionError"
                                        THEN RetryInterval(consecutive_failures + 1) ELSE 0]
    /\ pc' = IF exc = "ConnectionError" THEN "monitor" ELSE "crashed"

\* start_monitoring's except clauses, for a pass in which op raised exc.
PassFailed(op, exc) ==
    /\ consecutive_failures' =
           IF exc = "ConnectionError" THEN ConnectionErrorCounter(consecutive_failures)
           ELSE ExceptionCounter(consecutive_failures)
    /\ streak' = [n |-> streak.n + 1, kinds |-> streak.kinds \cup {exc},
                  wait |-> streak.wait + RetryInterval(consecutive_failures + 1)]
    /\ step' = [NoStep EXCEPT !.op = op, !.exc = exc,
                              !.slept = RetryInterval(consecutive_failures + 1),
                              !.alert = (exc # "ConnectionError"
                                         /\ ExceptionAlerts(consecutive_failures))]
    /\ pc' = "monitor"

\* get_latest_events: the page at offset = the mirror's count.
GetLatestEvents ==
    /\ script = "app"
    /\ pc = "monitor"
    /\ LET total_docs == Cardinality(events_collection)
       IN  /\ latest_events' = EventsPage(total_docs, BATCH_SIZE)
           /\ step' = [NoStep EXCEPT !.op = "get_latest_events", !.request = total_docs]
    /\ pc' = "process_events"
    /\ UNCHANGED <<bot_vars, script, store_vars, remote_vars, fetch_events_vars, fetch_markets_vars,
                   existing_market_slugs, latest_markets, consecutive_failures, streak>>

\* The ids process_new_events / process_new_markets verify after the save.
event_ids(events) == [i \in 1..Len(events) |-> events[i]["id"]]
market_slugs(markets) ==
    LET present == SelectSeq(markets, LAMBDA m : "market_slug" \in DOMAIN m)
    IN  [i \in 1..Len(present) |-> present[i]["market_slug"]]

\* Mutant of MissingAfterSave: the lookup of each key is skipped whenever the
\* count is not zero.
MissingAfterSaveAnyFound(coll, key, keys, expected) ==
    IF CountIn(coll, key, keys) > 0 THEN <<>>
    ELSE SelectSeq(keys, LAMBDA k : Matches(coll, key, k) = {})

\* The keys the verification prints as missing: none unless the count differs.
MissingAfterSave(coll, key, keys, expected) ==
    IF CountIn(coll, key, keys) = expected THEN <<>>
    ELSE SelectSeq(keys, LAMBDA k : Matches(coll, key, k) = {})

\* process_new_events; event['id'] raises KeyError before anything is saved.
ProcessNewEvents ==
    /\ pc = "process_events"
    /\ IF latest_events = <<>>
       THEN /\ pc' = "get_latest_markets"
            /\ step' = [NoStep EXCEPT !.op = "process_new_events"]
            /\ UNCHANGED <<store_vars, consecutive_failures, streak>>
       ELSE IF \E i \in 1..Len(latest_events) : "id" \notin DOMAIN latest_events[i]
       THEN /\ streak.n < MaxStreak
            /\ PassFailed("process_new_events", "KeyError")
            /\ UNCHANGED store_vars
       ELSE /\ events_collection' = EventsAfterSave(events_collection, latest_events)
            /\ step' = [NoStep EXCEPT
                          !.op = "process_new_events", !.batch = latest_events,
                          !.before = events_collection,
                          !.skipped = EventsSkipped(latest_events),
                          !.save_error = SaveEventsRaises(latest_events),
                          !.missing = MissingAfterSave(
                              EventsAfterSave(events_collection, latest_events), "id",
                              event_ids(latest_events), Len(latest_events))]
            /\ pc' = "get_latest_markets"
            /\ UNCHANGED <<client, markets_collection, consecutive_failures, streak>>
    /\ UNCHANGED <<bot_vars, script, remote_vars, fetch_events_vars, fetch_markets_vars,
                   existing_market_slugs, latest_events, latest_markets>>

\* get_latest_markets up to its call of fetch_markets.
GetLatestMarkets ==
    /\ \/ pc = "get_latest_markets"
       \/ pc = "monitor" /\ script = "monitor_markets"
    /\ existing_market_slugs' = {d["market_slug"] : d \in markets_collection}
    /\ pc' = "fetch_markets"
    /\ next_cursor' = 0
    /\ all_markets' = <<>>
    /\ fetch_caller' = "get_latest_markets"
    /\ step' = [NoStep EXCEPT !.op = "get_latest_markets"]
    /\ UNCHANGED <<bot_vars, script, store_vars, remote_vars, fetch_events_vars, latest_events,
                   latest_markets, consecutive_failures, streak>>

\* Mutant of IsNewMarket: the test against existing_market_slugs is dropped.
IsNewMarketAny(market, existing) ==
    /\ "market_slug" \in DOMAIN market
    /\ Truthy(market["market_slug"])

\* market.get('market_slug') and market['market_slug'] not in existing_market_slugs
IsNewMarket(market, existing) ==
    /\ "market_slug" \in DOMAIN market
    /\ Truthy(market["market_slug"])
    /\ market["market_slug"] \notin existing

\* The list comprehension of get_latest_markets.
NewMarkets(markets, existing) == SelectSeq(markets, LAMBDA m : IsNewMarket(m, existing))

\* get_latest_markets after fetch_markets returned.
FilterNewMarkets ==
    /\ pc = "filter_markets"
    /\ latest_markets' = NewMarkets(all_markets, existing_market_slugs)
    /\ pc' = "process_markets"
    /\ step' = [NoStep EXCEPT !.op = "get_latest_markets", !.batch = all_markets]
    /\ all_markets' = <<>>
    /\ UNCHANGED <<bot_vars, script, store_vars, remote_vars, fetch_events_vars, next_cursor,
                   fetch_caller, existing_market_slugs, latest_events,
                   consecutive_failures, streak>>

\* process_new_markets, then the end of the try block: the counter is reset
\* and the loop sleeps monitoring_interval.
ProcessNewMarkets ==
    /\ pc = "process_markets"
    /\ markets_collection' =
           IF latest_markets = <<>> THEN markets_collection
           ELSE MarketsAfterSave(markets_collection, latest_markets)
    /\ step' = IF latest_markets = <<>>
               THEN [NoStep EXCEPT !.op = "process_new_markets",
                                   !.slept = monitoring_interval, !.ended = streak]
               ELSE [NoStep EXCEPT
                       !.op = "process_new_markets", !.batch = latest_markets,
                       !.before = markets_collection,
                       !.skipped = MarketsSkipped(latest_markets),
                       !.save_error = SaveMarketsRaises(latest_markets),
                       !.missing = MissingAfterSave(
                           MarketsAfterSave(markets_collection, latest_markets),
                           "market_slug", market_slugs(latest_markets),
                           Len(market_slugs(latest_markets))),
                       !.slept = monitoring_interval, !.ended = streak]
    /\ consecutive_failures' = 0
    /\ streak' = NoStreak
    /\ pc' = "monitor"
    /\ UNCHANGED <<bot_vars, script, client, events_collection, remote_vars, fetch_events_vars,
                   fetch_markets_vars, existing_market_slugs, latest_events, latest_markets>>

\* ------------------------------------------------------------ environment
\* Longest remote markets collection while app.py runs.
AppMaxMarkets == 1
AppRemoteMarketSamples == {Mk("A", "q1")}

\* The events API serves an event id once: the records of a listing that have
\* an id have different ones. (The markets API is keyed by condition_id, not
\* by market_slug, so a slug may repeat in its listing.)
UniqueIds(events) ==
    \A i, j \in 1..Len(events) :
        (i # j /\ "id" \in DOMAIN events[i] /\ "id" \in DOMAIN events[j]) =>
            events[i]["id"] # events[j]["id"]

\* The remote collections are append-only and change between passes.
RemoteAppendEvent ==
    /\ script = "app"
    /\ pc = "monitor"
    /\ Len(remote_events) < MaxRemote
    /\ \E rec \in RemoteEventSamples :
          /\ UniqueIds(Append(remote_events, rec))
          /\ remote_events' = Append(remote_events, rec)
    /\ step' = NoStep
    /\ UNCHANGED <<bot_vars, script, pc, store_vars, remote_markets, fetch_events_vars,
                   fetch_markets_vars, monitor_vars>>

RemoteAppendMarket ==
    /\ pc = "monitor"
    /\ Len(remote_markets) < (IF script = "app" THEN AppMaxMarkets ELSE MaxRemote)
    /\ \E rec \in (IF script = "app" THEN AppRemoteMarketSamples ELSE RemoteMarketSamples) :
          remote_markets' = Append(remote_markets, rec)
    /\ step' = NoStep
    /\ UNCHANGED <<bot_vars, script, pc, store_vars, remote_events, fetch_events_vars,
                   fetch_markets_vars, monitor_vars>>

\* ------------------------------------------------------------ the programs
\* What a previous run left in the database: nothing, or the first event of
\* the remote listing (the markets of the listing of its time).
PriorEvent == Ev(1, "t1") @@ ("endDate" :> IsoDate)
PriorEvents == {{}, {ProcessRecord(PriorEvent)}}
PriorMarkets == {{}, {Mk("A", "q1"), Mk("B", "q1")}}

\* main() of app.py or of monitor_markets.py after the handlers are built, or
\* main() of get_markets.py at its loop.
Init ==
    /\ script \in {"app", "monitor_markets", "get_markets"}
    /\ pc = CASE script = "app" -> "init_events"
              [] script = "monitor_markets" -> "init_markets"
              [] script = "get_markets" -> "fetch_markets"
    /\ client \in (IF script = "get_markets" THEN {FALSE} ELSE BOOLEAN)
    /\ events_collection \in (IF script = "app" /\ client THEN PriorEvents ELSE {{}})
    /\ markets_collection \in (IF script = "monitor_markets" /\ client THEN PriorMarkets ELSE {{}})
    /\ remote_events \in (IF script = "app" THEN SeqsUpTo(RemoteEventSamples, MaxRemote)
                          ELSE {<<>>})
    /\ remote_markets \in (IF script = "app" THEN SeqsUpTo(AppRemoteMarketSamples, AppMaxMarkets)
                           ELSE SeqsUpTo(RemoteMarketSamples, MaxRemote))
    /\ UniqueIds(remote_events)
    /\ events_collection # {} => (remote_events # <<>> /\ remote_events[1] = PriorEvent)
    /\ offset = 0
    /\ all_events = <<>>
    /\ next_cursor = 0
    /\ all_markets = <<>>
    /\ fetch_caller = IF script = "get_markets" THEN "main" ELSE "none"
    /\ existing_market_slugs = {}
    /\ latest_events = <<>>
    /\ latest_markets = <<>>
    /\ consecutive_failures = 0
    /\ streak = NoStreak
    /\ step = NoStep
    /\ BotIdle

\* The programs against a remote that answers every request.
Next ==
    \/ InitializeEventsIfNeeded
    \/ FetchEventsPage
    \/ EventInitialize
    \/ InitializeMarketsIfNeeded
    \/ FetchMarketsPage
    \/ MarketInitialize
    \/ GetLatestEvents
    \/ ProcessNewEvents
    \/ GetLatestMarkets
    \/ FilterNewMarkets
    \/ ProcessNewMarkets
    \/ RemoteAppendEvent
    \/ RemoteAppendMarket

Spec == Init /\ [][Next]_vars

\* The same programs when every request returns and every sleep ends: the
\* program always takes its next step.
SpecLive == Init /\ [][Next]_vars /\ WF_vars(Next)

\* ------------------------------------------------------------ failing remote
\* What requests.get or response.json() raises in get_latest_events, and what
\* the store raises in get_latest_markets, in the model.
LatestEventsExceptions == {"ConnectionError", "Exception", "AutoReconnect"}
LatestMarketsExceptions == {"Exception", "AutoReconnect"}

\* Mutant of GetLatestEventsRaises: the exception is counted and the pass
\* goes on to its markets stage.
GetLatestEventsRaisesGoesOn ==
    /\ script = "app"
    /\ pc = "monitor"
    /\ streak.n < MaxStreak
    /\ \E exc \in LatestEventsExceptions :
          /\ consecutive_failures' = consecutive_failures + 1
          /\ streak' = [streak EXCEPT !.n = @ + 1]
          /\ step' = [NoStep EXCEPT !.op = "get_latest_events", !.exc = exc]
          /\ pc' = "get_latest_markets"
    /\ UNCHANGED <<bot_vars, script, store_vars, remote_vars, fetch_events_vars, fetch_markets_vars,
                   existing_market_slugs, latest_events, latest_markets>>

\* A pass whose get_latest_events raises.
GetLatestEventsRaises ==
    /\ script = "app"
    /\ pc = "monitor"
    /\ streak.n < MaxStreak
    /\ \E exc \in LatestEventsExceptions : PassFailed("get_latest_events", exc)
    /\ UNCHANGED <<bot_vars, script, store_vars, remote_vars, fetch_events_vars, fetch_markets_vars,
                   existing_market_slugs, latest_events, latest_markets>>

\* A pass whose get_latest_markets raises before it calls fetch_markets.
GetLatestMarketsRaises ==
    /\ \/ pc = "get_latest_markets"
       \/ pc = "monitor" /\ script = "monitor_markets"
    /\ streak.n < MaxStreak
    /\ \E exc \in LatestMarketsExceptions : PassFailed("get_latest_markets", exc)
    /\ UNCHANGED <<bot_vars, script, store_vars, remote_vars, fetch_events_vars, fetch_markets_vars,
                   existing_market_slugs, latest_events, latest_markets>>

\* initialize_if_needed whose count_documents raises pymongo's AutoReconnect:
\* _connect succeeded and the server is gone since. main() has no try
\* around initialize_if_needed.
InitializeIfNeededRaises ==
    /\ pc \in {"init_events", "init_markets"}
    /\ client
    /\ pc' = "crashed"
    /\ step' = [NoStep EXCEPT !.op = "initialize_if_needed", !.exc = "AutoReconnect"]
    /\ UNCHANGED <<bot_vars, script, store_vars, remote_vars, fetch_events_vars,
                   fetch_markets_vars, monitor_vars>>

\* The remotes of the runs in which requests fail.
FaultRemoteEvents == {<<>>, <<Ev(1, "t1") @@ ("endDate" :> IsoDate), EventNoId>>}
FaultRemoteMarkets == {<<>>, <<Mk("A", "q1"), Mk("B", "q1"), Mk("C", "q1")>>}

FaultInit ==
    /\ Init
    /\ script \in {"app", "monitor_markets"}
    /\ client
    /\ remote_events \in FaultRemoteEvents
    /\ remote_markets \in FaultRemoteMarkets \cup {<<Mk("A", "q1")>>}

\* The programs against a remote whose requests may fail.
FaultNext ==
    \/ InitializeEventsIfNeeded
    \/ InitializeIfNeededRaises
    \/ FetchEventsPage
    \/ FetchEventsRaises
    \/ FetchEventsServerError
    \/ EventInitialize
    \/ InitializeMarketsIfNeeded
    \/ FetchMarketsPage
    \/ FetchMarketsRaises
    \/ MarketInitialize
    \/ GetLatestEvents
    \/ GetLatestEventsRaises
    \/ ProcessNewEvents
    \/ GetLatestMarkets
    \/ GetLatestMarketsRaises
    \/ FilterNewMarkets
    \/ ProcessNewMarkets

\* A request returns or raises and a sleep ends: the program always takes
\* its next step.
SpecFaults == FaultInit /\ [][FaultNext]_vars /\ WF_vars(FaultNext)

\* ------------------------------------------------------------ the notifier
\* Chats that talk to the bot.
MaxChats == 2
Chats == 1..MaxChats

\* The clock runs from 0 to MaxNow seconds in ticks of TickSeconds.
MaxNow == 180
TickSeconds == 90

\* Alerts counted per chat and market: 0, 1, ..., MaxSent (and more).
MaxSent == 2

\* (now - start_date).total_seconds() <= 120
AlertWindow == 120

\* The markets GET /markets can serve: one record per id, one that started at
\* second 0 and one without a startDate.
Gm(id, start) == ("id" :> id) @@ ("startDate" :> start)
GmNoStartDate(id) == ("id" :> id)
GammaSamples == {Gm("m1", 0), GmNoStartDate("m2")}
MarketIds == {m["id"] : m \in GammaSamples}

\* The variables the notifier's actions leave alone.
monitor_program_vars ==
    <<script, pc, store_vars, remote_vars, fetch_events_vars, fetch_markets_vars,
      monitor_vars, step, liquidity_monitoring>>

\* The keys of {market['id']: market for market in markets}.
market_ids(markets) == {m["id"] : m \in markets}

\* current_markets_dict[market_id]
MarketOf(markets, market_id) == CHOOSE m \in markets : m["id"] = market_id

\* subscribe / unsubscribe; a handler runs while no job runs or while the job
\* is suspended at its send.
Subscribe ==
    /\ job.pc \in {"idle", "awaiting"}
    /\ \E chat_id \in Chats :
          /\ chat_id \notin subscribed_chats
          /\ subscribed_chats' = subscribed_chats \cup {chat_id}
    /\ job' = IF job.pc = "awaiting" THEN [job EXCEPT !.changed = TRUE] ELSE job
    /\ bot_step' = NoBotStep
    /\ UNCHANGED <<previous_markets, gamma_markets, now, sent, discovered, order_vars,
                   monitor_program_vars>>

Unsubscribe ==
    /\ job.pc \in {"idle", "awaiting"}
    /\ \E chat_id \in subscribed_chats : subscribed_chats' = subscribed_chats \ {chat_id}
    /\ job' = IF job.pc = "awaiting" THEN [job EXCEPT !.changed = TRUE] ELSE job
    /\ bot_step' = NoBotStep
    /\ UNCHANGED <<previous_markets, gamma_markets, now, sent, discovered, order_vars,
                   monitor_program_vars>>

\* The remote lists a market, or a market leaves the fetched window; time passes.
GammaLists ==
    /\ job.pc = "idle"
    /\ \E m \in GammaSamples \ gamma_markets : gamma_markets' = gamma_markets \cup {m}
    /\ bot_step' = NoBotStep
    /\ UNCHANGED <<subscribed_chats, previous_markets, now, job, sent, discovered, order_vars,
                   monitor_program_vars>>

GammaDelists ==
    /\ job.pc = "idle"
    /\ \E m \in gamma_markets : gamma_markets' = gamma_markets \ {m}
    /\ bot_step' = NoBotStep
    /\ UNCHANGED <<subscribed_chats, previous_markets, now, job, sent, discovered, order_vars,
                   monitor_program_vars>>

Tick ==
    /\ job.pc = "idle"
    /\ now + TickSeconds <= MaxNow
    /\ now' = now + TickSeconds
    /\ bot_step' = NoBotStep
    /\ UNCHANGED <<subscribed_chats, previous_markets, gamma_markets, job, sent, discovered,
                   order_vars, monitor_program_vars>>

\* What requests.get / raise_for_status raise in check_new_markets.
PollExceptions == {"RequestException"}

\* Mutant of Poll: the first poll takes every market it fetched for new and
\* goes through them.
PollAlertsFirst ==
    /\ job.pc = "idle"
    /\ \/ \E exc \in PollExceptions :
             /\ bot_step' = [NoBotStep EXCEPT !.op = "check_new_markets", !.exc = exc]
             /\ UNCHANGED <<previous_markets, job, discovered>>
       \/ /\ bot_step' = [NoBotStep EXCEPT !.op = "check_new_markets"]
          /\ LET current_markets == gamma_markets
                 new_market_ids == market_ids(current_markets) \ previous_markets
             IN  IF current_markets = {}
                 THEN UNCHANGED <<previous_markets, job, discovered>>
                 ELSE /\ job' = [IdleJob EXCEPT !.pc = "markets", !.current = current_markets,
                                                !.now = now, !.todo = new_market_ids]
                      /\ discovered' = discovered \cup (subscribed_chats \X new_market_ids)
                      /\ UNCHANGED previous_markets
    /\ UNCHANGED <<subscribed_chats, gamma_markets, now, sent, order_vars, monitor_program_vars>>

\* check_new_markets up to its loop over new_market_ids.
Poll ==
    /\ job.pc = "idle"
    /\ \/ \E exc \in PollExceptions :
             /\ bot_step' = [NoBotStep EXCEPT !.op = "check_new_markets", !.exc = exc]
             /\ UNCHANGED <<previous_markets, job, discovered>>
       \/ /\ bot_step' = [NoBotStep EXCEPT !.op = "check_new_markets"]
          /\ LET current_markets == gamma_markets
                 new_market_ids == market_ids(current_markets) \ previous_markets
             IN  IF current_markets = {}
                 THEN UNCHANGED <<previous_markets, job, discovered>>
                 ELSE IF previous_markets = NoSnapshot
                 THEN /\ previous_markets' = market_ids(current_markets)
                      /\ UNCHANGED <<job, discovered>>
                 ELSE /\ job' = [IdleJob EXCEPT !.pc = "markets", !.current = current_markets,
                                                !.now = now, !.todo = new_market_ids]
                      /\ discovered' = discovered \cup (subscribed_chats \X new_market_ids)
                      /\ UNCHANGED previous_markets
    /\ UNCHANGED <<subscribed_chats, gamma_markets, now, sent, order_vars, monitor_program_vars>>

\* The job leaves check_new_markets through its except clause.
PollRaises(exc) ==
    /\ job' = IdleJob
    /\ bot_step' = [NoBotStep EXCEPT !.op = "check_new_markets", !.exc = exc]
    /\ UNCHANGED previous_markets

\* One turn of "for market_id in new_market_ids", or the end of the loop and
\* the update of previous_markets.
NextMarket ==
    /\ job.pc = "markets"
    /\ IF job.todo = {}
       THEN /\ previous_markets' = market_ids(job.current)
            /\ job' = IdleJob
            /\ bot_step' = [NoBotStep EXCEPT !.op = "check_new_markets"]
       ELSE \E market_id \in job.todo :
               LET market == MarketOf(job.current, market_id)
               IN  IF "startDate" \notin DOMAIN market
                   THEN PollRaises("KeyError")
                   ELSE IF job.now - market["startDate"] <= AlertWindow
                   THEN /\ job' = [job EXCEPT !.pc = "fanout", !.todo = @ \ {market_id},
                                              !.market = market_id,
                                              !.iter_size = Cardinality(subscribed_chats),
                                              !.visited = {}, !.started = subscribed_chats,
                                              !.delivered = {}, !.failed = {},
                                              !.changed = FALSE]
                        /\ bot_step' = NoBotStep
                        /\ UNCHANGED previous_markets
                   ELSE /\ job' = [job EXCEPT !.todo = @ \ {market_id}]
                        /\ bot_step' = NoBotStep
                        /\ UNCHANGED previous_markets
    /\ UNCHANGED <<subscribed_chats, gamma_markets, now, sent, discovered, order_vars,
                   monitor_program_vars>>

\* One turn of "for chat_id in subscribed_chats" up to the send: the set
\* iterator raises RuntimeError when the set's size changed, yields a chat it
\* has not yielded, or is exhausted (with chats left only after the set
\* changed under it).
NextRecipient ==
    /\ job.pc = "fanout"
    /\ IF Cardinality(subscribed_chats) # job.iter_size
       THEN PollRaises("RuntimeError")
       ELSE \/ \E chat_id \in subscribed_chats \ job.visited :
                  /\ job' = [job EXCEPT !.pc = "awaiting", !.chat = chat_id,
                                        !.visited = @ \cup {chat_id}]
                  /\ bot_step' = NoBotStep
                  /\ UNCHANGED previous_markets
            \/ /\ subscribed_chats \ job.visited = {} \/ job.changed
               /\ job' = [job EXCEPT !.pc = "markets", !.market = "", !.chat = 0]
               /\ bot_step' = [NoBotStep EXCEPT
                                 !.op = "send_market_alert", !.market = job.market,
                                 !.fanout = [market |-> job.market, started |-> job.started,
                                             delivered |-> job.delivered,
                                             failed |-> job.failed, changed |-> job.changed]]
               /\ UNCHANGED previous_markets
    /\ UNCHANGED <<subscribed_chats, gamma_markets, now, sent, discovered, order_vars,
                   monitor_program_vars>>

\* sent after one more alert of the market to the chat.
CountAlert(chat_id, market_id) ==
    [pair \in DOMAIN sent |->
        IF pair = <<chat_id, market_id>> /\ sent[pair] < MaxSent THEN sent[pair] + 1
        ELSE sent[pair]]

\* Mutant of SendFailed: the exception of the send is not caught in
\* send_market_alert and ends the job.
SendFailedUncaught ==
    /\ job' = IdleJob
    /\ bot_step' = [NoBotStep EXCEPT
                      !.op = "send_market_alert", !.exc = "TelegramError",
                      !.chat = job.chat, !.market = job.market,
                      !.fanout = [market |-> job.market, started |-> job.started,
                                  delivered |-> job.delivered,
                                  failed |-> job.failed \cup {job.chat},
                                  changed |-> job.changed]]
    /\ UNCHANGED <<previous_markets, sent>>

\* The try block of send_market_alert raised: the except clause logs it and the
\* loop goes on.
SendFailed ==
    /\ job' = [job EXCEPT !.pc = "fanout", !.failed = @ \cup {job.chat}]
    /\ bot_step' = [NoBotStep EXCEPT !.op = "send_message", !.exc = "TelegramError",
                                      !.chat = job.chat, !.market = job.market]
    /\ UNCHANGED <<previous_markets, sent>>

\* context.bot.send_message returns, or it (or format_market_message) raises.
SendReturns ==
    /\ job.pc = "awaiting"
    /\ \/ /\ sent' = CountAlert(job.chat, job.market)
          /\ job' = [job EXCEPT !.pc = "fanout", !.delivered = @ \cup {job.chat}]
          /\ bot_step' = [NoBotStep EXCEPT !.op = "send_message", !.chat = job.chat,
                                            !.market = job.market, !.delivered = TRUE]
          /\ UNCHANGED previous_markets
       \/ SendFailed
    /\ UNCHANGED <<subscribed_chats, gamma_markets, now, discovered, order_vars,
                   monitor_program_vars>>

\* telegram_bot.py after init_services: no chat subscribed, no snapshot, and
\* run_repeating(check_new_markets) scheduled.
NotifierInit ==
    /\ script = "telegram_bot"
    /\ pc = "run_polling"
    /\ client = TRUE
    /\ events_collection = {}
    /\ markets_collection = {}
    /\ remote_events = <<>>
    /\ remote_markets = <<>>
    /\ offset = 0
    /\ all_events = <<>>
    /\ next_cursor = 0
    /\ all_markets = <<>>
    /\ fetch_caller = "none"
    /\ existing_market_slugs = {}
    /\ latest_events = <<>>
    /\ latest_markets = <<>>
    /\ consecutive_failures = 0
    /\ streak = NoStreak
    /\ step = NoStep
    /\ subscribed_chats = {}
    /\ previous_markets = NoSnapshot
    /\ gamma_markets \in SUBSET GammaSamples
    /\ now = 0
    /\ job = IdleJob
    /\ sent = [pair \in Chats \X MarketIds |-> 0]
    /\ discovered = {}
    /\ conversations = <<>>
    /\ user_data = <<>>
    /\ orders = <<>>
    /\ entered = <<>>
    /\ bot_step = NoBotStep
    /\ liquidity_monitoring = {}

\* The steps of the check_new_markets job.
JobStep == Poll \/ NextMarket \/ NextRecipient \/ SendReturns

NotifierNext ==
    \/ Subscribe
    \/ Unsubscribe
    \/ GammaLists
    \/ GammaDelists
    \/ Tick
    \/ Poll
    \/ NextMarket
    \/ NextRecipient
    \/ SendReturns

\* A send that delivers; a poll whose request is answered.
SendDelivers == SendReturns /\ bot_step'.delivered
PollAnswered == Poll /\ bot_step'.exc = "none"

\* The job queue runs check_new_markets every 10 seconds for ever, and every
\* request and send returns or raises: the job always takes its next step.
\* Telegram and the Gamma API do not fail for ever: of sends (requests) made
\* again and again, one succeeds.
SpecNotifier ==
    /\ NotifierInit
    /\ [][NotifierNext]_vars
    /\ WF_vars(JobStep)
    /\ SF_vars(SendDelivers)
    /\ SF_vars(PollAnswered)

\* ------------------------------------------------------------ the order flow
\* Users that talk to the bot; a conversation of order_handler is keyed by
\* (chat, user): per_chat=True, per_user=True.
MaxUsers == 2
Users == 1..MaxUsers
ConvKeys == Chats \X Users

\* Mutant of DataOwner: one dict for all users.
DataOwnerShared(key) == 1

\* context.user_data in a handler is the dict of update.effective_user: the
\* user of the conversation's key.
DataOwner(key) == key[2]

\* The order flow is followed until db.orders holds MaxOrders documents.
MaxOrders == 1

\* The states of order_handler.
END == "END"
SELECTING_OUTCOME == "SELECTING_OUTCOME"
SELECTING_SIDE == "SELECTING_SIDE"
ENTERING_AMOUNT == "ENTERING_AMOUNT"
ENTERING_PRICE == "ENTERING_PRICE"

\* py_clob_client.order_builder.constants, and Python's None.
BUY == "BUY"
SELL == "SELL"
None == "<None>"

\* Python dicts: functions from their keys.
EmptyDict == [k \in {} |-> ""]
Has(d, k) == k \in DOMAIN d
Put(d, k, v) == [x \in DOMAIN d \cup {k} |-> IF x = k THEN v ELSE d[x]]
Update(d, e) == [x \in DOMAIN d \cup DOMAIN e |-> IF x \in DOMAIN e THEN e[x] ELSE d[x]]
Get(d, k, default) == IF k \in DOMAIN d THEN d[k] ELSE default

\* Python floats: a number of tenths, or nan.
Float(tenths) == [nan |-> FALSE, tenths |-> tenths]
NaN == [nan |-> TRUE, tenths |-> 0]

\* Mutant of FloatLe: a < b.
FloatLt(a, b) == ~a.nan /\ ~b.nan /\ a.tenths < b.tenths

\* a <= b on floats: every comparison with nan is False.
FloatLe(a, b) == ~a.nan /\ ~b.nan /\ a.tenths <= b.tenths

\* float(text) for the texts a user types; a text outside the table raises
\* ValueError.
FloatTable ==
    "-1" :> Float(-10) @@ "0" :> Float(0) @@ "0.5" :> Float(5) @@ "1" :> Float(10)
    @@ "1.5" :> Float(15) @@ "10" :> Float(100) @@ "nan" :> NaN
RaisesValueError(text) == text \notin DOMAIN FloatTable
float(text) == FloatTable[text]

\* What users type as an amount and as a price.
AmountTexts == {"abc", "nan", "-1", "0", "10"}
PriceTexts == {"abc", "nan", "-1", "0", "0.5", "1", "1.5"}

\* The markets whose alert buttons (market_order:<id>, limit_order:<id>) users
\* press.
OrderMarkets == {"m1"}

\* What GET /markets/{id} answers: the outcomes, with or without tokenIds.
OutcomeNames == {"Yes", "No"}
MetadataSamples ==
    {[outcomes |-> <<"Yes", "No">>, tokenIds |-> <<"t1", "t2">>],
     [outcomes |-> <<"Yes", "No">>]}

\* dict(zip(outcomes, token_ids)), token_ids being [] without tokenIds.
TokenIdsOf(market_data) ==
    LET outcomes == market_data.outcomes
        token_ids == IF "tokenIds" \in DOMAIN market_data THEN market_data.tokenIds ELSE <<>>
        n == IF Len(outcomes) < Len(token_ids) THEN Len(outcomes) ELSE Len(token_ids)
    IN  [o \in {outcomes[i] : i \in 1..n} |->
            token_ids[CHOOSE i \in 1..n : outcomes[i] = o]]

\* What clob_client.post_order answers when it does not raise.
ApiResponses ==
    {("success" :> TRUE @@ "orderID" :> "o1" @@ "transactionsHashes" :> <<"0xh">>
        @@ "errorMsg" :> ""),
     ("success" :> FALSE @@ "orderID" :> "" @@ "errorMsg" :> "not enough balance"),
     ("success" :> FALSE @@ "errorMsg" :> "not enough balance")}

\* Mutant of validate_order: the price of a limit order is not looked at.
validate_orderAnyPrice(order_data) ==
    /\ {"user_id", "market_id", "outcome", "token_id", "amount", "side", "type", "status",
        "created_at"} \subseteq DOMAIN order_data
    /\ order_data["side"] \in {"BUY", "SELL"}
    /\ order_data["type"] \in {"market", "limit"}
    /\ order_data["status"] \in {"pending", "success", "failed", "matched"}

\* OrderSchema.validate_order; the isinstance tests on values that place_order
\* builds with the right type are true.
validate_order(order_data) ==
    /\ {"user_id", "market_id", "outcome", "token_id", "amount", "side", "type", "status",
        "created_at"} \subseteq DOMAIN order_data
    /\ order_data["side"] \in {"BUY", "SELL"}
    /\ order_data["type"] \in {"market", "limit"}
    /\ order_data["status"] \in {"pending", "success", "failed", "matched"}
    /\ order_data["type"] = "limit" =>
          /\ Has(order_data, "price")
          /\ FloatLe(Float(0), order_data["price"])
          /\ FloatLe(order_data["price"], Float(10))
    /\ Has(order_data, "error_message") => order_data["error_message"] # None
    /\ Has(order_data, "order_id") => order_data["order_id"] # None

\* MongoDBHandler.save_order: True when the document was validated and inserted.
save_order(order_data, insert_ok) == validate_order(order_data) /\ insert_ok

\* The handler that runs, on the conversation it runs for.
BotStep(op, key, text) ==
    [NoBotStep EXCEPT !.op = op, !.key = key, !.chat = key[1], !.text = text,
                      !.before = conversations[key]]

\* The keys of context.user_data that place_order reads.
PlaceOrderKeys(d) ==
    {"token_id", "amount", "side", "market_id", "selected_outcome", "order_type"}
    \cup (IF Has(d, "order_type") /\ d["order_type"] = "limit" THEN {"price"} ELSE {})

\* order_data before the call of the CLOB client.
PendingOrder(user, d) ==
    LET order_data ==
            "user_id" :> user @@ "market_id" :> d["market_id"]
            @@ "outcome" :> d["selected_outcome"] @@ "token_id" :> d["token_id"]
            @@ "amount" :> d["amount"] @@ "side" :> (IF d["side"] = BUY THEN "BUY" ELSE "SELL")
            @@ "type" :> d["order_type"] @@ "status" :> "pending" @@ "created_at" :> "now"
    IN  IF d["order_type"] = "limit" THEN Put(order_data, "price", d["price"]) ELSE order_data

\* order_data.update({...}) with the answer of post_order.
AnsweredOrder(order_data, resp) ==
    Update(order_data,
           "order_id" :> Get(resp, "orderID", None)
           @@ "transaction_hashes" :> Get(resp, "transactionsHashes", <<>>)
           @@ "status" :> (IF Get(resp, "success", FALSE) THEN "success" ELSE "failed")
           @@ "error_message" :> Get(resp, "errorMsg", ""))

\* place_order for the user of the conversation, d being context.user_data:
\* a missing key or a raising client is caught and answered with the generic
\* text; the answer of the client is put in order_data, which is saved once,
\* and its errorMsg is told to the user when success is false; user_data is
\* cleared at the end.
place_order(st, key, d) ==
    /\ user_data' = [user_data EXCEPT ![DataOwner(key)] = EmptyDict]
    /\ IF ~(PlaceOrderKeys(d) \subseteq DOMAIN d)
       THEN /\ bot_step' = [st EXCEPT !.placed = TRUE, !.exc = "KeyError",
                                        !.reply = "An error occurred while placing your order."]
            /\ UNCHANGED orders
       ELSE \/ /\ bot_step' = [st EXCEPT !.placed = TRUE, !.submitted = TRUE,
                                           !.order = PendingOrder(key[2], d),
                                           !.api = "raised", !.exc = "Exception",
                                           !.remote_error = "not enough balance",
                                           !.reply = "An error occurred while placing your order."]
               /\ UNCHANGED orders
            \/ \E resp \in ApiResponses, insert_ok \in BOOLEAN :
                  LET order_data == AnsweredOrder(PendingOrder(key[2], d), resp)
                      saved == save_order(order_data, insert_ok)
                  IN  /\ orders' = IF saved THEN Append(orders, order_data) ELSE orders
                      /\ bot_step' = [st EXCEPT
                                        !.placed = TRUE, !.submitted = TRUE, !.api = "answered",
                                        !.order = PendingOrder(key[2], d),
                                        !.insert_failed = ~insert_ok,
                                        !.saved = saved,
                                        !.status = IF saved THEN order_data["status"] ELSE "",
                                        !.success = Get(resp, "success", FALSE),
                                        !.remote_error = Get(resp, "errorMsg", ""),
                                        !.told = IF Get(resp, "success", FALSE) THEN ""
                                                 ELSE Get(resp, "errorMsg", "Unknown error"),
                                        !.reply = IF Get(resp, "success", FALSE)
                                                  THEN "Order placed successfully!"
                                                  ELSE "Failed to place order"]

\* handle_market_order and handle_limit_order, the entry points.
EntryPoint(op, order_type) ==
    /\ \E key \in DOMAIN conversations, market_id \in OrderMarkets :
          /\ conversations[key] = END
          /\ LET d == Put(Put(user_data[DataOwner(key)], "market_id", market_id),
                          "order_type", order_type)
                 st == [BotStep(op, key, "") EXCEPT !.market = market_id]
             IN  \/ /\ user_data' = [user_data EXCEPT ![DataOwner(key)] = d]
                    /\ bot_step' = [st EXCEPT !.exc = "Exception",
                                              !.reply = "Error fetching market data."]
                    /\ UNCHANGED <<conversations, entered>>
                 \/ \E market_data \in MetadataSamples :
                       /\ user_data' = [user_data EXCEPT
                                          ![DataOwner(key)] = Put(d, "token_ids", TokenIdsOf(market_data))]
                       /\ conversations' = [conversations EXCEPT ![key] = SELECTING_OUTCOME]
                       /\ entered' = [entered EXCEPT
                                        ![key] = "market_id" :> market_id
                                                 @@ "order_type" :> order_type]
                       /\ bot_step' = [st EXCEPT !.reply = "Select the outcome you want to trade:"]
    /\ UNCHANGED <<orders, notifier_vars, monitor_program_vars>>

HandleMarketOrder ==
    /\ Len(orders) < MaxOrders
    /\ EntryPoint("handle_market_order", "market")

HandleLimitOrder ==
    /\ Len(orders) < MaxOrders
    /\ EntryPoint("handle_limit_order", "limit")

\* handle_outcome_selection; a KeyError leaves the handler and the state of
\* the conversation stays.
HandleOutcomeSelection ==
    /\ Len(orders) < MaxOrders
    /\ \E key \in DOMAIN conversations, outcome \in OutcomeNames :
          /\ conversations[key] = SELECTING_OUTCOME
          /\ LET d == Put(user_data[DataOwner(key)], "selected_outcome", outcome)
                 st == BotStep("handle_outcome_selection", key, outcome)
             IN  IF Has(d, "token_ids") /\ outcome \in DOMAIN d["token_ids"]
                 THEN /\ user_data' = [user_data EXCEPT
                                         ![DataOwner(key)] = Put(d, "token_id", d["token_ids"][outcome])]
                      /\ conversations' = [conversations EXCEPT ![key] = SELECTING_SIDE]
                      /\ entered' = [entered EXCEPT ![key] = Put(@, "selected_outcome", outcome)]
                      /\ bot_step' = [st EXCEPT !.reply = "Do you want to buy or sell?"]
                 ELSE /\ user_data' = [user_data EXCEPT ![DataOwner(key)] = d]
                      /\ bot_step' = [st EXCEPT !.exc = "KeyError"]
                      /\ UNCHANGED <<conversations, entered>>
    /\ UNCHANGED <<orders, notifier_vars, monitor_program_vars>>

\* handle_side_selection.
HandleSideSelection ==
    /\ Len(orders) < MaxOrders
    /\ \E key \in DOMAIN conversations, side \in {"buy", "sell"} :
          /\ conversations[key] = SELECTING_SIDE
          /\ LET value == IF side = "buy" THEN BUY ELSE SELL
             IN  /\ user_data' = [user_data EXCEPT ![DataOwner(key)] = Put(@, "side", value)]
                 /\ entered' = [entered EXCEPT ![key] = Put(@, "side", value)]
          /\ conversations' = [conversations EXCEPT ![key] = ENTERING_AMOUNT]
          /\ bot_step' = [BotStep("handle_side_selection", key, side) EXCEPT
                            !.reply = "Enter the amount you want to trade"]
    /\ UNCHANGED <<orders, notifier_vars, monitor_program_vars>>

\* Mutant of AmountRejected: the text that is no number ends the conversation.
AmountRejectedEnds(st, key) ==
    /\ bot_step' = [st EXCEPT !.exc = "ValueError",
                              !.reply = "Please enter a valid number for the amount."]
    /\ conversations' = [conversations EXCEPT ![key] = END]
    /\ UNCHANGED <<user_data, orders, entered>>

\* The except ValueError clause of handle_amount_entry.
AmountRejected(st, key) ==
    /\ bot_step' = [st EXCEPT !.exc = "ValueError",
                              !.reply = "Please enter a valid number for the amount."]
    /\ UNCHANGED <<conversations, user_data, orders, entered>>

\* handle_amount_entry.
HandleAmountEntry ==
    /\ Len(orders) < MaxOrders
    /\ \E key \in DOMAIN conversations, text \in AmountTexts :
          /\ conversations[key] = ENTERING_AMOUNT
          /\ LET st == BotStep("handle_amount_entry", key, text)
             IN  IF RaisesValueError(text)
                 THEN AmountRejected(st, key)
                 ELSE LET d == Put(user_data[DataOwner(key)], "amount", float(text))
                      IN  IF ~Has(d, "order_type")
                          THEN /\ user_data' = [user_data EXCEPT ![DataOwner(key)] = d]
                               /\ bot_step' = [st EXCEPT !.exc = "KeyError"]
                               /\ UNCHANGED <<conversations, orders, entered>>
                          ELSE IF d["order_type"] = "market"
                          THEN /\ place_order(st, key, d)
                               /\ conversations' = [conversations EXCEPT ![key] = END]
                               /\ entered' = [entered EXCEPT ![key] = EmptyDict]
                          ELSE /\ user_data' = [user_data EXCEPT ![DataOwner(key)] = d]
                               /\ conversations' = [conversations EXCEPT ![key] = ENTERING_PRICE]
                               /\ entered' = [entered EXCEPT ![key] = Put(@, "amount", float(text))]
                               /\ bot_step' = [st EXCEPT
                                                 !.reply = "Enter the limit price (between 0 and 1):"]
                               /\ UNCHANGED orders
    /\ UNCHANGED <<notifier_vars, monitor_program_vars>>

\* handle_price_entry.
HandlePriceEntry ==
    /\ Len(orders) < MaxOrders
    /\ \E key \in DOMAIN conversations, text \in PriceTexts :
          /\ conversations[key] = ENTERING_PRICE
          /\ LET st == BotStep("handle_price_entry", key, text)
             IN  IF RaisesValueError(text)
                 THEN /\ bot_step' = [st EXCEPT !.exc = "ValueError",
                                        !.reply = "Please enter a valid number for the price."]
                      /\ UNCHANGED <<conversations, user_data, orders, entered>>
                 ELSE IF FloatLe(Float(0), float(text)) /\ FloatLe(float(text), Float(10))
                 THEN /\ place_order(st, key, Put(user_data[DataOwner(key)], "price", float(text)))
                      /\ conversations' = [conversations EXCEPT ![key] = END]
                      /\ entered' = [entered EXCEPT ![key] = EmptyDict]
                 ELSE /\ bot_step' = [st EXCEPT
                                        !.reply = "Price must be between 0 and 1. Please try again:"]
                      /\ UNCHANGED <<conversations, user_data, orders, entered>>
    /\ UNCHANGED <<notifier_vars, monitor_program_vars>>

\* Mutant of CancelOrder: context.user_data is not cleared.
CancelOrderKeepsData ==
    /\ Len(orders) < MaxOrders
    /\ \E key \in DOMAIN conversations :
          /\ conversations[key] # END
          /\ conversations' = [conversations EXCEPT ![key] = END]
          /\ entered' = [entered EXCEPT ![key] = EmptyDict]
          /\ bot_step' = [BotStep("cancel_order", key, "/cancel") EXCEPT
                            !.reply = "Order process cancelled."]
    /\ UNCHANGED <<user_data, orders, notifier_vars, monitor_program_vars>>

\* cancel_order, a handler of every state and a fallback.
CancelOrder ==
    /\ Len(orders) < MaxOrders
    /\ \E key \in DOMAIN conversations :
          /\ conversations[key] # END
          /\ user_data' = [user_data EXCEPT ![DataOwner(key)] = EmptyDict]
          /\ conversations' = [conversations EXCEPT ![key] = END]
          /\ entered' = [entered EXCEPT ![key] = EmptyDict]
          /\ bot_step' = [BotStep("cancel_order", key, "/cancel") EXCEPT
                            !.reply = "Order process cancelled."]
    /\ UNCHANGED <<orders, notifier_vars, monitor_program_vars>>

\* telegram_bot.py after init_services, for the order flow: no user data, no
\* order, and the conversations that will be followed; the notifier is left
\* out.
OrderInitFor(keys) ==
    /\ script = "telegram_bot"
    /\ pc = "run_polling"
    /\ client = TRUE
    /\ events_collection = {}
    /\ markets_collection = {}
    /\ remote_events = <<>>
    /\ remote_markets = <<>>
    /\ offset = 0
    /\ all_events = <<>>
    /\ next_cursor = 0
    /\ all_markets = <<>>
    /\ fetch_caller = "none"
    /\ existing_market_slugs = {}
    /\ latest_events = <<>>
    /\ latest_markets = <<>>
    /\ consecutive_failures = 0
    /\ streak = NoStreak
    /\ step = NoStep
    /\ subscribed_chats = {}
    /\ previous_markets = NoSnapshot
    /\ gamma_markets = {}
    /\ now = 0
    /\ job = IdleJob
    /\ sent = <<>>
    /\ discovered = {}
    /\ conversations = [key \in keys |-> END]
    /\ user_data = [user \in Users |-> EmptyDict]
    /\ orders = <<>>
    /\ entered = [key \in keys |-> EmptyDict]
    /\ bot_step = NoBotStep
    /\ liquidity_monitoring = {}

\* The conversations of user 1 in every chat.
OrderInit == OrderInitFor({<<chat, 1>> : chat \in Chats})

\* The conversations of every user in chat 1.
UsersInit == OrderInitFor({<<1, user>> : user \in Users})

OrderNext ==
    \/ HandleMarketOrder
    \/ HandleLimitOrder
    \/ HandleOutcomeSelection
    \/ HandleSideSelection
    \/ HandleAmountEntry
    \/ HandlePriceEntry
    \/ CancelOrder

SpecOrders == OrderInit /\ [][OrderNext]_vars

SpecUsers == UsersInit /\ [][OrderNext]_vars

\* --------------------------------------------------------------- the startup
\* Mutant of InitServices: the bot goes on without its store.
InitServicesDegraded ==
    /\ script = "telegram_bot"
    /\ pc = "init_services"
    /\ pc' = "run_polling"
    /\ step' = [NoStep EXCEPT !.op = "init_services"]
    /\ UNCHANGED <<bot_vars, script, store_vars, remote_vars, fetch_events_vars,
                   fetch_markets_vars, monitor_vars>>

\* telegram_bot.py at import: init_services() builds models.MongoDBHandler,
\* whose __init__ pings the server and raises when the ping fails;
\* init_services re-raises and the module raises SystemExit(1) before the
\* application is built.
InitServices ==
    /\ script = "telegram_bot"
    /\ pc = "init_services"
    /\ pc' = IF client THEN "run_polling" ELSE "exited"
    /\ step' = [NoStep EXCEPT !.op = "init_services",
                              !.exc = IF client THEN "none" ELSE "SystemExit"]
    /\ UNCHANGED <<bot_vars, script, store_vars, remote_vars, fetch_events_vars,
                   fetch_markets_vars, monitor_vars>>

\* application.run_polling(): the handlers and the job run once the module
\* got as far as its last line.
RunPolling ==
    /\ pc = "run_polling"
    /\ NotifierNext

\* Each program at its first line, with a document store that answers the
\* connection test or does not.
StartupInit ==
    \/ /\ Init
       /\ script \in {"app", "monitor_markets"}
    \/ /\ script = "telegram_bot"
       /\ pc = "init_services"
       /\ client \in BOOLEAN
       /\ events_collection = {}
       /\ markets_collection = {}
       /\ remote_events = <<>>
       /\ remote_markets = <<>>
       /\ offset = 0
       /\ all_events = <<>>
       /\ next_cursor = 0
       /\ all_markets = <<>>
       /\ fetch_caller = "none"
       /\ existing_market_slugs = {}
       /\ latest_events = <<>>
       /\ latest_markets = <<>>
       /\ consecutive_failures = 0
       /\ streak = NoStreak
       /\ step = NoStep
       /\ subscribed_chats = {}
       /\ previous_markets = NoSnapshot
       /\ gamma_markets \in SUBSET GammaSamples
       /\ now = 0
       /\ job = IdleJob
       /\ sent = [pair \in Chats \X MarketIds |-> 0]
       /\ discovered = {}
       /\ conversations = <<>>
       /\ user_data = <<>>
       /\ orders = <<>>
       /\ entered = <<>>
       /\ bot_step = NoBotStep
       /\ liquidity_monitoring = {}

StartupNext ==
    \/ Next
    \/ InitServices
    \/ RunPolling

SpecStartup == StartupInit /\ [][StartupNext]_vars

\* ------------------------------------------------------------ the order store
\* The order operations of models.MongoDBHandler called one after another
\* on the handler init_services built, until db.orders holds MaxStored
\* documents. A document's _id is its place in the collection.
MaxStored == 1

\* The statuses a caller passes: the four of the schema and one that is not.
StatusSamples == {"pending", "success", "failed", "matched", "cancelled"}

\* An order as place_order builds it, with the status s.
OrderSample(s) ==
    "user_id" :> 1 @@ "market_id" :> "m1" @@ "outcome" :> "Yes" @@ "token_id" :> "t1"
    @@ "amount" :> Float(10) @@ "side" :> "BUY" @@ "type" :> "market" @@ "status" :> s
    @@ "created_at" :> "now"

\* A dict without the key k.
Without(d, k) == [x \in DOMAIN d \ {k} |-> d[x]]

\* The orders a caller passes to save_order: one of each status; orders
\* lacking a required field; a side and a type outside the schema; limit
\* orders without a price and with prices in and out of [0, 1]; a market
\* order that carries a price.
OrderSamples ==
    {OrderSample(s) : s \in StatusSamples}
    \cup {Without(OrderSample("pending"), k) : k \in {"token_id", "status", "created_at"}}
    \cup {Put(OrderSample("pending"), "side", "HOLD"),
          Put(OrderSample("pending"), "type", "stop"),
          Put(OrderSample("pending"), "type", "limit"),
          Put(OrderSample("pending"), "price", Float(15))}
    \cup {Put(Put(OrderSample("pending"), "type", "limit"), "price", float(text)) :
             text \in {"nan", "-1", "0", "0.5", "1", "1.5"}}

\* update_order_status' update_one({"_id": ObjectId(order_id)}, {"$set":
\* update_data}): the status is set whatever the document's status is;
\* error_message is set when one is given.
update_order_status(docs, order_id, status, error_message) ==
    IF order_id \notin 1..Len(docs) THEN docs
    ELSE [docs EXCEPT ![order_id] =
              SetFields(@, IF error_message = ""
                           THEN "status" :> status
                           ELSE "status" :> status @@ "error_message" :> error_message)]

\* save_order(order_data); insert_one raises or not.
CallSaveOrder ==
    /\ Len(orders) < MaxStored
    /\ \E order_data \in OrderSamples, insert_ok \in BOOLEAN :
          LET saved == save_order(order_data, insert_ok)
          IN  /\ orders' = IF saved THEN Append(orders, order_data) ELSE orders
              /\ bot_step' = [NoBotStep EXCEPT !.op = "save_order",
                                               !.status = Get(order_data, "status", ""),
                                               !.order = order_data,
                                               !.insert_failed = ~insert_ok,
                                               !.saved = saved]
    /\ UNCHANGED <<notifier_vars, conversations, user_data, entered, monitor_program_vars>>

\* update_order_status(order_id, status, error_message); update_one raises
\* or not. The call returns modified_count > 0: updated_at is always new, so
\* a document that is found is modified.
CallUpdateOrderStatus ==
    /\ \E order_id \in 1..MaxStored, status \in StatusSamples,
          error_message \in {"", "rejected"}, update_ok \in BOOLEAN :
          /\ orders' = IF update_ok
                       THEN update_order_status(orders, order_id, status, error_message)
                       ELSE orders
          /\ bot_step' = [NoBotStep EXCEPT
                            !.op = "update_order_status", !.status = status,
                            !.before = IF order_id <= Len(orders)
                                       THEN orders[order_id]["status"] ELSE "",
                            !.insert_failed = ~update_ok,
                            !.saved = update_ok /\ order_id <= Len(orders)]
    /\ UNCHANGED <<notifier_vars, conversations, user_data, entered, monitor_program_vars>>

OrderStoreInit == OrderInitFor({})

OrderStoreNext == CallSaveOrder \/ CallUpdateOrderStatus

SpecOrderStore == OrderStoreInit /\ [][OrderStoreNext]_vars

\* ------------------------------------------------------------ liquidity monitors
\* The markets and the outcomes of the subscriptions of the model.
LiquidityMarkets == {"m1", "m2"}
LiquidityOutcomes == {"Yes", "No"}

\* The documents a filter matches: those that carry every field of it.
MatchesFilter(docs, query) == {d \in docs : \A k \in DOMAIN query : d[k] = query[k]}

\* save_liquidity_monitor's update_one({"market_id", "chat_id"}, {"$set":
\* {"outcome", ...}}, upsert=True): the document of the pair gets the
\* outcome, or a document of the pair is inserted.
save_liquidity_monitor(docs, market_id, outcome, chat_id) ==
    LET query == "market_id" :> market_id @@ "chat_id" :> chat_id
    IN  (docs \ MatchesFilter(docs, query)) \cup {Put(query, "outcome", outcome)}

\* Mutant of remove_liquidity_monitor: chat_id is left out of the filter.
remove_liquidity_monitorAllChats(docs, query) ==
    docs \ MatchesFilter(docs, "market_id" :> query["market_id"])

\* remove_liquidity_monitor's delete_many(query).
remove_liquidity_monitor(docs, query) == docs \ MatchesFilter(docs, query)

\* save_liquidity_monitor(market_id, outcome, chat_id); update_one raises
\* or not.
CallSaveLiquidityMonitor ==
    /\ \E market_id \in LiquidityMarkets, outcome \in LiquidityOutcomes, chat_id \in Chats,
          update_ok \in BOOLEAN :
          /\ liquidity_monitoring' =
                 IF update_ok
                 THEN save_liquidity_monitor(liquidity_monitoring, market_id, outcome, chat_id)
                 ELSE liquidity_monitoring
          /\ bot_step' = [NoBotStep EXCEPT
                            !.op = "save_liquidity_monitor",
                            !.query = "market_id" :> market_id @@ "chat_id" :> chat_id
                                      @@ "outcome" :> outcome,
                            !.insert_failed = ~update_ok,
                            !.saved = update_ok]
    /\ UNCHANGED <<notifier_vars, order_vars, script, pc, store_vars, remote_vars,
                   fetch_events_vars, fetch_markets_vars, monitor_vars, step>>

\* remove_liquidity_monitor(market_id) and remove_liquidity_monitor(market_id,
\* chat_id): chat_id is in the filter unless it is None; delete_many raises
\* or not; the call returns deleted_count > 0.
CallRemoveLiquidityMonitor ==
    /\ \E delete_ok \in BOOLEAN,
          query \in {"market_id" :> m : m \in LiquidityMarkets} \cup
                    {"market_id" :> m @@ "chat_id" :> c : m \in LiquidityMarkets, c \in Chats} :
          /\ liquidity_monitoring' =
                 IF delete_ok THEN remove_liquidity_monitor(liquidity_monitoring, query)
                 ELSE liquidity_monitoring
          /\ bot_step' = [NoBotStep EXCEPT
                            !.op = "remove_liquidity_monitor",
                            !.query = query,
                            !.insert_failed = ~delete_ok,
                            !.saved = delete_ok /\
                                      remove_liquidity_monitor(liquidity_monitoring, query)
                                          # liquidity_monitoring]
    /\ UNCHANGED <<notifier_vars, order_vars, script, pc, store_vars, remote_vars,
                   fetch_events_vars, fetch_markets_vars, monitor_vars, step>>

LiquidityNext == CallSaveLiquidityMonitor \/ CallRemoveLiquidityMonitor

SpecLiquidity == OrderStoreInit /\ [][LiquidityNext]_vars

\* ---- end of the programs

\* ------------------------------------------------------------ claims
\* The program is inside start_monitoring's loop.
InMonitoring ==
    \/ pc \in {"monitor", "process_events", "get_latest_markets", "filter_markets",
               "process_markets"}
    \/ pc = "fetch_markets" /\ fetch_caller = "get_latest_markets"

\* The last step was a pass that failed / a pass that ran to its end.
PassJustFailed == InMonitoring /\ pc = "monitor" /\ step.exc # "none"
PassJustSucceeded == pc = "monitor" /\ step.op = "process_new_markets"

\* base*2^1 + ... + base*2^n
RECURSIVE BackoffSum(_)
BackoffSum(n) == IF n = 0 THEN 0 ELSE BackoffSum(n - 1) + base_retry_interval * (2 ^ n)

\* C1, step by step: a failed pass sleeps base * 2^(counter + 1) and leaves the
\* counter one higher (or at 0, when it printed the alert); a pass that ran to
\* its end leaves the counter at 0.
C1_EachPass ==
    /\ PassJustFailed' =>
          /\ step'.slept = base_retry_interval * (2 ^ (consecutive_failures + 1))
          /\ \/ consecutive_failures' = consecutive_failures + 1
             \/ step'.alert /\ consecutive_failures' = 0
          /\ streak'.n = streak.n + 1
    /\ PassJustSucceeded' => consecutive_failures' = 0

\* C1, over a run of failures: while only connectivity failures happened since
\* the last successful pass, the counter is their number and the waits add up
\* to base*2^1 + ... + base*2^n; after 3 of them and a success the total wait
\* is base*2 + base*4 + base*8 and the counter is 0.
C1_ConnectivityStreak ==
    /\ streak.kinds \subseteq {"ConnectionError"} =>
          /\ consecutive_failures = streak.n
          /\ streak.wait = BackoffSum(streak.n)
    /\ (PassJustSucceeded /\ step.ended.n = 3 /\ step.ended.kinds = {"ConnectionError"}) =>
          /\ step.ended.wait = base_retry_interval * 2 + base_retry_interval * 4
                               + base_retry_interval * 8
          /\ consecutive_failures = 0

\* C1: in the monitoring loop every failed pass increments the failure counter
\* and waits base_interval * 2^failures, every successful pass resets the
\* counter to 0, and 3 connectivity failures followed by a success wait
\* base*2^1 + base*2^2 + base*2^3 in total and leave the counter at 0.
C1_Backoff == [][C1_EachPass]_vars /\ []C1_ConnectivityStreak

\* C1 witness: a pass has just succeeded after exactly 3 connectivity failures.
C1_Witness ==
    /\ PassJustSucceeded
    /\ step.ended = [n |-> 3, kinds |-> {"ConnectionError"}, wait |-> 840]
    /\ consecutive_failures = 0

\* C2: whenever the failure counter reaches the maximum, whatever the kind of
\* the failures, the alert is printed and the counter is reset before the next
\* pass; so the counter never exceeds the maximum, it is below the maximum
\* whenever a pass starts, and no backoff wait exceeds base * 2^max.
C2_CounterBounded ==
    /\ consecutive_failures <= max_consecutive_failures
    /\ pc = "monitor" => consecutive_failures < max_consecutive_failures
    /\ step.slept <= base_retry_interval * (2 ^ max_consecutive_failures)
    /\ (PassJustFailed /\ streak.n = max_consecutive_failures) => step.alert

\* C3: the monitoring loop never gives up: no step leaves the loop, and after
\* every failed pass the program attempts another pass (which runs on, or
\* fails and is counted in turn).
C3_NeverGivesUp ==
    /\ [][InMonitoring => InMonitoring']_vars
    /\ [][PassJustFailed' => (pc' = "monitor" /\ streak'.n = streak.n + 1)]_vars
    /\ \A n \in 0..MaxStreak :
          (PassJustFailed /\ streak.n = n) ~> (pc # "monitor" \/ streak.n # n)

\* C3 witness: a pass failed on an exception other than a connectivity failure,
\* after other failures, and the program is back at the top of the loop.
C3_Witness ==
    /\ PassJustFailed
    /\ step.exc \in {"Exception", "KeyError"}
    /\ streak.n = MaxStreak - 1
    /\ streak.kinds = {"ConnectionError", "Exception"}

\* ---- bootstrap and the deltas
\* The valid records of a remote listing: they carry every required field.
ValidRemoteEvents == {remote_events[i] : i \in {j \in 1..Len(remote_events) :
                                                  validate_event(remote_events[j])}}
ValidRemoteMarkets == {remote_markets[i] : i \in {j \in 1..Len(remote_markets) :
                                                    validate_market(remote_markets[j])}}

\* A bootstrap fetch of the collection is under way or has just returned.
BootstrapFetchingEvents == pc \in {"fetch_events", "events_fetched"}
BootstrapFetchingMarkets ==
    \/ pc = "fetch_markets" /\ fetch_caller = "initialize"
    \/ pc = "markets_fetched"

\* C4: bootstrap fetches a collection exactly when its mirror count is zero (a
\* non-zero count goes on with no fetch request, a zero count starts the
\* fetch), the fetch hands the entire remote collection to the upsert, and
\* after it the mirror holds every valid remote record.
C4_Bootstrap ==
    /\ BootstrapFetchingEvents => events_collection = {}
    /\ BootstrapFetchingMarkets => markets_collection = {}
    /\ (step.op = "initialize_if_needed" /\ step.exc = "none") =>
          /\ pc = "init_markets" => events_collection # {}
          /\ pc = "monitor" => markets_collection # {}
          /\ pc \in {"fetch_events", "init_markets", "fetch_markets", "monitor"}
    /\ step.op = "EventHandler.initialize" =>
          /\ step.batch = remote_events
          /\ \A rec \in ValidRemoteEvents : Matches(events_collection, "id", rec["id"]) # {}
    /\ step.op = "MarketHandler.initialize" =>
          /\ step.batch = remote_markets
          /\ \A rec \in ValidRemoteMarkets :
                Matches(markets_collection, "market_slug", rec["market_slug"]) # {}

\* C5: get_latest_events requests the page at offset = the mirror's event
\* count, and no record it returns is already in the mirror.
C5_DeltaStrictlyNew ==
    (pc = "process_events" /\ step.op = "get_latest_events") =>
        /\ step.request = Cardinality(events_collection)
        /\ \A i \in 1..Len(latest_events) :
              "id" \in DOMAIN latest_events[i] =>
                  Matches(events_collection, "id", latest_events[i]["id"]) = {}

\* The market_slug values of a listing, and of the mirror.
SlugsOf(markets) ==
    {markets[i]["market_slug"] : i \in {j \in 1..Len(markets) :
                                          "market_slug" \in DOMAIN markets[j]}}
LocalSlugs == {d["market_slug"] : d \in markets_collection}

\* get_latest_markets has just returned latest_markets.
DeltaMarketsReturned == pc = "process_markets" /\ step.op = "get_latest_markets"

\* C6 as stated: get_latest_markets returns the remote markets whose
\* market_slug is not among the mirror's, whatever the slug: the returned keys
\* are remote minus local ({C} for local {A,B} and remote {A,B,C}).
C6_KeySetDifference ==
    DeltaMarketsReturned =>
        /\ SlugsOf(latest_markets) = SlugsOf(remote_markets) \ LocalSlugs
        /\ (LocalSlugs = {"A", "B"} /\ SlugsOf(remote_markets) = {"A", "B", "C"}) =>
              SlugsOf(latest_markets) = {"C"}

\* The remote markets get_latest_markets is to return, by position: they have
\* a non-empty market_slug that the mirror does not have.
NewRemotePositions ==
    {i \in 1..Len(remote_markets) :
        /\ "market_slug" \in DOMAIN remote_markets[i]
        /\ remote_markets[i]["market_slug"] # ""
        /\ remote_markets[i]["market_slug"] \notin LocalSlugs}

\* C6, amended: get_latest_markets returns exactly the remote markets with a
\* non-empty market_slug that is not among the mirror's, each once and every
\* one of them a remote record: the returned keys are (remote minus the empty
\* slug) minus local, {C} for local {A,B} and remote {A,B,C}.
C6_NonEmptyKeySetDifference ==
    DeltaMarketsReturned =>
        /\ SlugsOf(latest_markets) = (SlugsOf(remote_markets) \ {""}) \ LocalSlugs
        /\ Len(latest_markets) = Cardinality(NewRemotePositions)
        /\ \A j \in 1..Len(latest_markets) :
              \E i \in NewRemotePositions : remote_markets[i] = latest_markets[j]
        /\ (LocalSlugs = {"A", "B"} /\ SlugsOf(remote_markets) = {"A", "B", "C"}) =>
              SlugsOf(latest_markets) = {"C"}

\* C6 witness: with A and B in the mirror and A, B, C in the remote listing the
\* delta is the one market C.
C6_Witness ==
    /\ DeltaMarketsReturned
    /\ LocalSlugs = {"A", "B"}
    /\ SlugsOf(remote_markets) = {"A", "B", "C"}
    /\ Len(latest_markets) = 1
    /\ latest_markets[1]["market_slug"] = "C"

\* ---- the upsert path
\* The steps that hand a batch to save_events / save_markets.
EventSaveSteps == {"save_events", "EventHandler.initialize", "process_new_events"}
MarketSaveSteps == {"save_markets", "MarketHandler.initialize", "process_new_markets"}

\* A record that has every required field and whose dates parse.
WellFormedEvent(rec) == validate_event(rec) /\ ~ProcessDatesRaises(<<rec>>)
WellFormedMarket(rec) == validate_market(rec) /\ ~ProcessDatesRaises(<<rec>>)

\* C7: of every batch handed to save_events / save_markets, directly or by
\* process_new_events / process_new_markets, each record lacking a required
\* field is logged as skipped and every valid record has its document in the
\* mirror afterwards; and no pass fails in process_new_events /
\* process_new_markets: an invalid record never aborts the batch.
C7_InvalidNeverAborts ==
    /\ step.op \in EventSaveSteps =>
          /\ step.exc = "none"
          /\ \A i \in 1..Len(step.batch) :
                IF validate_event(step.batch[i])
                THEN WellFormedEvent(step.batch[i]) =>
                         Matches(events_collection, "id", step.batch[i]["id"]) # {}
                ELSE ProcessRecord(step.batch[i]) \in step.skipped
    /\ step.op \in MarketSaveSteps =>
          /\ step.exc = "none"
          /\ \A i \in 1..Len(step.batch) :
                IF validate_market(step.batch[i])
                THEN WellFormedMarket(step.batch[i]) =>
                         Matches(markets_collection, "market_slug",
                                 step.batch[i]["market_slug"]) # {}
                ELSE ProcessRecord(step.batch[i]) \in step.skipped

\* C8: the mirror holds at most one document per event id and at most one per
\* market_slug, every valid record of a saved batch has exactly one document,
\* and saving the same batch again leaves the mirror as it is.
C8_UpsertIdempotent ==
    /\ \A d1, d2 \in events_collection : d1["id"] = d2["id"] => d1 = d2
    /\ \A d1, d2 \in markets_collection : d1["market_slug"] = d2["market_slug"] => d1 = d2
    /\ (step.op = "save_events" /\ ~step.save_error) =>
          /\ \A i \in 1..Len(step.batch) :
                validate_event(step.batch[i]) =>
                    Cardinality(Matches(events_collection, "id", step.batch[i]["id"])) = 1
          /\ EventsAfterSave(events_collection, step.batch) = events_collection
    /\ (step.op = "save_markets" /\ ~step.save_error) =>
          /\ \A i \in 1..Len(step.batch) :
                validate_market(step.batch[i]) =>
                    Cardinality(Matches(markets_collection, "market_slug",
                                        step.batch[i]["market_slug"])) = 1
          /\ MarketsAfterSave(markets_collection, step.batch) = markets_collection

\* C8 witness: a record was saved over a different document of its key, in a
\* batch that has the record twice.
C8_Witness ==
    /\ step.op = "save_events"
    /\ ~step.save_error
    /\ Len(step.batch) = 2
    /\ step.batch[1] = step.batch[2]
    /\ validate_event(step.batch[1])
    /\ Matches(step.before, "id", step.batch[1]["id"]) # {}
    /\ ProcessRecord(step.batch[1]) \notin step.before
    /\ Cardinality(Matches(events_collection, "id", step.batch[1]["id"])) = 1

\* Record i is the last one of the batch with its key.
LastOfKey(batch, key, i) ==
    \A j \in (i + 1)..Len(batch) : key \in DOMAIN batch[j] => batch[j][key] # batch[i][key]

\* C9: after a save, the document of each valid record's key is the (last)
\* record saved under that key, field for field: no field of the document it
\* replaced survives.
C9_ReplaceNotMerge ==
    /\ (step.op = "save_events" /\ ~step.save_error) =>
          \A i \in 1..Len(step.batch) :
              (validate_event(step.batch[i]) /\ LastOfKey(step.batch, "id", i)) =>
                  Matches(events_collection, "id", step.batch[i]["id"])
                      = {ProcessRecord(step.batch[i])}
    /\ (step.op = "save_markets" /\ ~step.save_error) =>
          \A i \in 1..Len(step.batch) :
              (validate_market(step.batch[i]) /\ LastOfKey(step.batch, "market_slug", i)) =>
                  Matches(markets_collection, "market_slug", step.batch[i]["market_slug"])
                      = {ProcessRecord(step.batch[i])}

\* ---- failures of the bootstrap fetches
\* The failures fetch_events / fetch_markets are to retry: connectivity,
\* timeout, remote-server error.
ClassifiedFailures == {"ConnectionError", "Timeout", "TimeoutError", "HTTPError"}

\* A request of a bootstrap fetch has just raised.
BootstrapFetchRaised ==
    /\ step.exc # "none"
    /\ \/ step.op = "fetch_events"
       \/ step.op = "fetch_markets" /\ fetch_caller = "initialize"

\* C10: a request of a bootstrap fetch (fetch_events, fetch_markets) that fails
\* with an unclassified failure is not retried: the fetch does not sleep, the
\* exception leaves it and the program, and no request follows.
C10_UnclassifiedIsFatal ==
    (BootstrapFetchRaised /\ step.exc \notin ClassifiedFailures) =>
        /\ step.slept = 0
        /\ pc = "crashed"

\* ---- pagination
\* fetch_markets (or get_markets.py's loop) has returned all_markets.
MarketsFetchReturned == pc \in {"markets_fetched", "filter_markets", "done"}

\* C11, at every step: fetch_events asks for offsets 0, page size, 2 * page
\* size, ... and holds the records before its offset; it stops at the first
\* empty page, holding the whole remote listing. fetch_markets goes on while
\* the cursor it was given is not the sentinel and holds the records before
\* its cursor; it stops at the sentinel, holding the whole remote listing.
C11_PaginationSteps ==
    /\ pc = "fetch_events" =>
          /\ offset % BATCH_SIZE = 0
          /\ offset <= Len(remote_events) + BATCH_SIZE - 1
          /\ all_events = SubSeq(remote_events, 1, Min(offset, Len(remote_events)))
    /\ pc = "events_fetched" =>
          /\ step.request = offset
          /\ EventsPage(offset, BATCH_SIZE) = <<>>
          /\ offset > 0 => EventsPage(offset - BATCH_SIZE, BATCH_SIZE) # <<>>
          /\ all_events = remote_events
    /\ pc = "fetch_markets" =>
          /\ next_cursor # END_CURSOR
          /\ next_cursor <= Len(remote_markets)
          /\ all_markets = SubSeq(remote_markets, 1, next_cursor)
    /\ MarketsFetchReturned =>
          /\ next_cursor = END_CURSOR
          /\ step.op = "fetch_markets" => all_markets = remote_markets

\* C11: full pagination ends exactly at the end of the data (C11_PaginationSteps
\* at every step), and against a remote that answers every request each fetch
\* terminates: fetch_events returns, fetch_markets returns.
C11_PaginationTerminates ==
    /\ []C11_PaginationSteps
    /\ (pc = "fetch_events") ~> (pc = "events_fetched")
    /\ (pc = "fetch_markets") ~> MarketsFetchReturned

\* C11 witness: fetch_events has returned a listing of more than one page
\* whose last page is not full.
C11_Witness ==
    /\ pc = "events_fetched"
    /\ Len(all_events) > BATCH_SIZE
    /\ Len(all_events) % BATCH_SIZE # 0
    /\ all_events = remote_events

\* C12: in send_market_alert a send that fails for one recipient is caught and
\* the loop goes on: when the fan-out over an unchanged set of subscribed chats
\* ends, every chat of the set whose send did not fail was sent the alert.
C12_FailureDoesNotBlock ==
    /\ (bot_step.op = "send_message" /\ bot_step.exc # "none") =>
           job.pc = "fanout"
    /\ (bot_step.op = "send_market_alert" /\ ~bot_step.fanout.changed) =>
           bot_step.fanout.delivered = bot_step.fanout.started \ bot_step.fanout.failed

\* A fan-out over two chats ended with one send failed and the other delivered.
C12_Witness ==
    /\ bot_step.op = "send_market_alert"
    /\ ~bot_step.fanout.changed
    /\ bot_step.fanout.failed # {}
    /\ bot_step.fanout.delivered # {}
    /\ bot_step.fanout.started = bot_step.fanout.failed \cup bot_step.fanout.delivered

\* C13: every market found new by a poll is in the end sent, at least once,
\* to every chat subscribed at that poll (as long as the chat stays subscribed
\* and the market stays listed), whatever sends and polls failed in between.
C13_AtLeastOnce ==
    \A pair \in Chats \X MarketIds :
        (pair \in discovered) ~>
            \/ sent[pair] >= 1
            \/ pair[1] \notin subscribed_chats
            \/ pair[2] \notin market_ids(gamma_markets)

\* C14: over any sequence of polls, no chat is sent more than one alert for
\* the same market id.
C14_AtMostOncePerKey ==
    \A pair \in Chats \X MarketIds : sent[pair] <= 1

\* C15: in ENTERING_AMOUNT a text that float() rejects is answered with the
\* re-prompt and changes nothing: the conversation stays in ENTERING_AMOUNT,
\* user_data gets no amount, place_order is not called and no order is saved.
C15_NonNumericAmountStays ==
    [][(bot_step'.op = "handle_amount_entry" /\ RaisesValueError(bot_step'.text)) =>
          /\ conversations[bot_step'.key] = ENTERING_AMOUNT
          /\ UNCHANGED <<conversations, user_data, orders>>
          /\ bot_step'.reply = "Please enter a valid number for the amount."
          /\ ~bot_step'.placed /\ ~bot_step'.submitted /\ ~bot_step'.saved]_vars

\* "abc" was typed as the amount and the conversation is still in
\* ENTERING_AMOUNT.
C15_Witness ==
    /\ bot_step.op = "handle_amount_entry"
    /\ bot_step.text = "abc"
    /\ bot_step.before = ENTERING_AMOUNT
    /\ conversations[bot_step.key] = ENTERING_AMOUNT
    /\ ~Has(user_data[bot_step.key[2]], "amount")

\* C16: in ENTERING_AMOUNT a text that parses as a number that is zero or
\* negative does not advance the conversation and does not reach place_order.
C16_NonPositiveAmountStays ==
    [][(/\ bot_step'.op = "handle_amount_entry"
        /\ ~RaisesValueError(bot_step'.text)
        /\ FloatLe(float(bot_step'.text), Float(0))) =>
          /\ conversations'[bot_step'.key] = ENTERING_AMOUNT
          /\ ~bot_step'.placed]_vars

C18_KindAtEntryDecides ==
    [][(/\ bot_step'.op = "handle_amount_entry"
        /\ ~RaisesValueError(bot_step'.text)
        /\ ~float(bot_step'.text).nan
        /\ float(bot_step'.text).tenths > 0) =>
          LET key == bot_step'.key
          IN  /\ entered[key]["order_type"] = "market" =>
                    conversations'[key] = END /\ bot_step'.placed
              /\ entered[key]["order_type"] = "limit" =>
                    conversations'[key] = ENTERING_PRICE /\ ~bot_step'.placed]_vars

\* C19: a conversation completed with valid inputs (a positive amount, a price
\* in [0, 1]) leaves exactly one order in db.orders, with status success or
\* failed, whatever the CLOB client answered or raised (the store working).
C19_ExactlyOneRecord ==
    (/\ bot_step.placed
     /\ bot_step.submitted
     /\ ~bot_step.insert_failed
     /\ ~bot_step.order["amount"].nan
     /\ bot_step.order["amount"].tenths > 0) =>
        /\ conversations[bot_step.key] = END
        /\ bot_step.saved
        /\ bot_step.status \in {"success", "failed"}
        /\ Len(orders) >= 1
        /\ orders[Len(orders)]["status"] = bot_step.status

\* C20: every order enters db.orders with status pending (and is changed to
\* success or failed afterwards, once the CLOB client has answered).
C20_PersistedStartsPending ==
    [][Len(orders') > Len(orders) =>
          /\ Len(orders') = Len(orders) + 1
          /\ orders'[Len(orders')]["status"] = "pending"]_vars

\* C21: when the submission fails (the client answers success = false, or
\* raises), the user is told the remote error text and db.orders gets an
\* order with status failed that carries this text (the store working).
C21_FailureSurfacedAndRecorded ==
    (/\ bot_step.submitted
     /\ ~bot_step.insert_failed
     /\ \/ bot_step.api = "raised"
        \/ bot_step.api = "answered" /\ ~bot_step.success) =>
        /\ bot_step.told = bot_step.remote_error
        /\ bot_step.saved
        /\ bot_step.status = "failed"
        /\ Len(orders) >= 1
        /\ orders[Len(orders)]["error_message"] = bot_step.remote_error

\* C22: cancel_order can run in every state of a conversation but END, and
\* when it runs the conversation is in END, the user's user_data is empty and
\* no order was submitted or saved.
C22_CancelClears ==
    /\ [](\A key \in DOMAIN conversations :
            (/\ conversations[key] \in {SELECTING_OUTCOME, SELECTING_SIDE,
                                        ENTERING_AMOUNT, ENTERING_PRICE}
             /\ Len(orders) < MaxOrders) =>
                ENABLED (CancelOrder /\ bot_step'.key = key))
    /\ [][bot_step'.op = "cancel_order" =>
            /\ conversations[bot_step'.key] # END
            /\ conversations'[bot_step'.key] = END
            /\ user_data'[bot_step'.key[2]] = EmptyDict
            /\ ~bot_step'.placed /\ ~bot_step'.submitted
            /\ UNCHANGED orders]_vars

\* A conversation was cancelled in ENTERING_PRICE, with an amount stored, and
\* nothing is left of it.
C22_Witness ==
    /\ bot_step.op = "cancel_order"
    /\ bot_step.before = ENTERING_PRICE
    /\ conversations[bot_step.key] = END
    /\ user_data[bot_step.key[2]] = EmptyDict
    /\ orders = <<>>

\* C23: with two users in conversation at once, the order a conversation
\* submits carries the market, kind, outcome and side chosen in this
\* conversation and the amount and price typed in it, under the user of the
\* conversation.
C23_OrderFromOwnInputs ==
    [][bot_step'.submitted =>
          LET key == bot_step'.key
              e == entered[key]
              order_data == bot_step'.order
          IN  /\ order_data["user_id"] = key[2]
              /\ order_data["market_id"] = e["market_id"]
              /\ order_data["type"] = e["order_type"]
              /\ order_data["outcome"] = e["selected_outcome"]
              /\ order_data["side"] = e["side"]
              /\ e["order_type"] = "market" =>
                    order_data["amount"] = float(bot_step'.text)
              /\ e["order_type"] = "limit" =>
                    /\ order_data["amount"] = e["amount"]
                    /\ order_data["price"] = float(bot_step'.text)]_vars

\* User 2 submitted a limit order while user 1 is in a market-order
\* conversation of their own.
C23_Witness ==
    /\ bot_step.submitted
    /\ bot_step.key = <<1, 2>>
    /\ bot_step.order["type"] = "limit"
    /\ conversations[<<1, 1>>] = ENTERING_AMOUNT
    /\ entered[<<1, 1>>]["order_type"] = "market"

\* C24: each conversation that is under way keeps its own data: what was
\* chosen and typed in it so far is what context.user_data holds for it,
\* whatever the same user's conversation in another chat did meanwhile.
C24_ConversationKeepsOwnData ==
    \A key \in DOMAIN conversations :
        conversations[key] # END =>
            \A k \in DOMAIN entered[key] :
                /\ Has(user_data[key[2]], k)
                /\ user_data[key[2]][k] = entered[key][k]

\* C25: when the connection test of the document store fails at startup, the
\* program is at its first line or has terminated, and the one step it takes
\* terminates it: nothing is fetched, nothing is written, no monitoring
\* pass runs and the bot handles nothing.
C25_StartupFailureFatal ==
    /\ [](~client => pc \in {"init_events", "init_markets", "init_services",
                             "crashed", "exited"})
    /\ [][~client =>
            /\ pc' \in {"crashed", "exited"}
            /\ step'.op \in {"initialize_if_needed", "init_services"}
            /\ step'.exc # "none"
            /\ UNCHANGED <<bot_vars, script, store_vars, remote_vars, fetch_events_vars,
                           fetch_markets_vars, monitor_vars>>]_vars

\* app.py found no document store and ended in initialize_if_needed.
C25_Witness ==
    /\ ~client
    /\ script = "app"
    /\ pc = "crashed"
    /\ step.op = "initialize_if_needed"

\* What went wrong in a request that raised exc: the connection, the time
\* allowed, or something else.
FailureKind(exc) ==
    CASE exc = "ConnectionError" -> "connectivity"
      [] exc \in {"Timeout", "TimeoutError"} -> "timeout"
      [] exc = "HTTPError" -> "server"
      [] OTHER -> "other"

\* C26: in the pagination of events and in the pagination of markets, a
\* request that fails on the connection is followed by a sleep of 60 and a
\* request that times out by a sleep of 30, and the loop then makes the same
\* request again.
C26_FixedWaits ==
    [][(step'.op \in {"fetch_events", "fetch_markets"} /\ step'.exc # "none") =>
          /\ FailureKind(step'.exc) = "connectivity" =>
                (step'.slept = ConnectionErrorWait /\ pc' = pc)
          /\ FailureKind(step'.exc) = "timeout" =>
                (step'.slept = TimeoutWait /\ pc' = pc)
          /\ FailureKind(step'.exc) \in {"connectivity", "timeout"} =>
                /\ step'.request = (IF step'.op = "fetch_events" THEN offset
                                    ELSE next_cursor)
                /\ UNCHANGED <<fetch_events_vars, fetch_markets_vars>>]_vars

\* The same for fetch_events alone.
C26_EventsFixedWaits ==
    [][(step'.op = "fetch_events" /\ step'.exc # "none") =>
          /\ FailureKind(step'.exc) = "connectivity" =>
                (step'.slept = ConnectionErrorWait /\ pc' = pc)
          /\ FailureKind(step'.exc) = "timeout" =>
                (step'.slept = TimeoutWait /\ pc' = pc)]_vars

\* C27: in the pagination of events and of markets, a request the remote
\* answers with a server error is followed by a sleep of 120 and the same
\* request again: the loop neither ends nor raises.
C27_ServerErrorRetried ==
    [][/\ (step'.op = "fetch_events" /\ step'.response = "5xx") =>
            /\ step'.exc = "HTTPError"
            /\ step'.slept = ServerErrorWait
            /\ step'.request = offset
            /\ pc' = pc
            /\ UNCHANGED fetch_events_vars
       /\ (step'.op = "fetch_markets" /\ step'.exc # "none"
                                       /\ FailureKind(step'.exc) = "other") =>
            /\ step'.slept = ServerErrorWait
            /\ step'.request = next_cursor
            /\ pc' = pc
            /\ UNCHANGED fetch_markets_vars]_vars

\* C28: when process_new_events or process_new_markets has saved a delta,
\* the keys it prints as missing are exactly the keys of the delta that no
\* document of the collection carries after the save; the collection is what
\* the one save left, and the pass goes on as a successful one: no failure
\* is counted for it.
C28_AnomalyIsDiagnostic ==
    [][/\ (step'.op = "process_new_events" /\ step'.exc = "none"
                                           /\ step'.batch # <<>>) =>
            LET keys == event_ids(step'.batch)
            IN  /\ {step'.missing[i] : i \in 1..Len(step'.missing)} =
                       {keys[i] : i \in {n \in 1..Len(keys) :
                                            Matches(events_collection', "id", keys[n]) = {}}}
                /\ events_collection' = EventsAfterSave(events_collection, step'.batch)
                /\ pc' = "get_latest_markets"
                /\ UNCHANGED <<consecutive_failures, streak>>
       /\ (step'.op = "process_new_markets" /\ step'.exc = "none"
                                            /\ step'.batch # <<>>) =>
            LET keys == market_slugs(step'.batch)
            IN  /\ {step'.missing[i] : i \in 1..Len(step'.missing)} =
                       {keys[i] : i \in {n \in 1..Len(keys) :
                                            Matches(markets_collection', "market_slug",
                                                    keys[n]) = {}}}
                /\ markets_collection' = MarketsAfterSave(markets_collection, step'.batch)
                /\ pc' = "monitor"
                /\ consecutive_failures' = 0
                /\ streak' = NoStreak]_vars

\* A delta of two events of which one was found in the collection after the
\* save and the other, printed as missing, was not.
C28_Witness ==
    /\ step.op = "process_new_events"
    /\ Len(step.batch) = 2
    /\ Len(step.missing) = 1
    /\ Matches(events_collection, "id", step.missing[1]) = {}
    /\ pc = "get_latest_markets"

\* C29: once _connect succeeded, a call of the document store that raises
\* because the server is gone does not end the program: the step that made
\* the call goes on to the program's next step or to its next pass.
C29_StoreFailureNeverCrashes ==
    [][step'.exc = "AutoReconnect" => pc' # "crashed"]_vars

\* The same for the calls of the store the monitoring loop makes: the pass
\* is counted as failed and the loop sleeps and goes on.
C29_MonitoringSurvives ==
    [][(step'.exc = "AutoReconnect" /\ step'.op # "initialize_if_needed") =>
          /\ pc' = "monitor"
          /\ step'.slept > 0
          /\ streak'.n = streak.n + 1]_vars

\* C30: whatever save_order and update_order_status calls are made, a
\* document of db.orders changes its status only from pending to success,
\* from pending to failed or from success to matched.
C30_StatusMonotone ==
    [][\A i \in 1..Len(orders) :
          orders'[i]["status"] # orders[i]["status"] =>
              <<orders[i]["status"], orders'[i]["status"]>> \in
                  {<<"pending", "success">>, <<"pending", "failed">>,
                   <<"success", "matched">>}]_vars

\* What the schema asks of an order: the required fields, a side, a type
\* and a status of the schema, and for a limit order a price in [0, 1].
SchemaValid(o) ==
    /\ {"user_id", "market_id", "outcome", "token_id", "amount", "side", "type", "status",
        "created_at"} \subseteq DOMAIN o
    /\ o["side"] \in {"BUY", "SELL"}
    /\ o["type"] \in {"market", "limit"}
    /\ o["status"] \in {"pending", "success", "failed", "matched"}
    /\ o["type"] = "limit" =>
          /\ "price" \in DOMAIN o
          /\ ~o["price"].nan
          /\ o["price"].tenths \in 0..10

\* C31: save_order of an order that fails the schema returns False and
\* leaves db.orders as it was; an order that meets the schema, a market
\* order without a price among them, is appended when the insert succeeds.
C31_InvalidNeverPersisted ==
    [][bot_step'.op = "save_order" =>
          /\ ~SchemaValid(bot_step'.order) => (~bot_step'.saved /\ orders' = orders)
          /\ (SchemaValid(bot_step'.order) /\ ~bot_step'.insert_failed) =>
                (bot_step'.saved /\ orders' = Append(orders, bot_step'.order))]_vars

\* A limit order with the price 1.5 was passed to save_order, the store was
\* reachable and nothing was saved.
C31_Witness ==
    /\ bot_step.op = "save_order"
    /\ ~bot_step.insert_failed
    /\ ~bot_step.saved
    /\ bot_step.order["type"] = "limit"
    /\ "price" \in DOMAIN bot_step.order
    /\ bot_step.order["price"] = Float(15)

\* C32: a handler that leaves its conversation at END, whether the order
\* was placed, the conversation was cancelled, the metadata of the market
\* could not be fetched or the submission raised, leaves the user's
\* user_data empty.
C32_TerminalDataEmpty ==
    [][\A key \in DOMAIN conversations :
          (bot_step'.op # "none" /\ bot_step'.key = key /\ conversations'[key] = END) =>
              user_data'[DataOwner(key)] = EmptyDict]_vars

\* The same for the handlers that end a conversation under way: place_order
\* and cancel_order.
C32_EndedConversationDataEmpty ==
    [][\A key \in DOMAIN conversations :
          (bot_step'.op # "none" /\ bot_step'.key = key /\ conversations[key] # END
                                 /\ conversations'[key] = END) =>
              user_data'[DataOwner(key)] = EmptyDict]_vars

\* The subscriptions on a market, and the one of a chat on a market.
SubscriptionsOn(docs, market_id) == {d \in docs : d["market_id"] = market_id}
SubscriptionOf(docs, market_id, chat_id) ==
    {d \in docs : d["market_id"] = market_id /\ d["chat_id"] = chat_id}

\* C33: a saved subscription leaves those of the other chats and markets as
\* they were; remove_liquidity_monitor with a chat removes that chat's
\* subscription on that market and nothing else, without a chat it removes
\* the subscriptions on that market and nothing else, and either returns
\* False and changes nothing when it matched none.
C33_RemoveOnlyMatching ==
    [][/\ (bot_step'.op = "save_liquidity_monitor" /\ bot_step'.saved) =>
            LET q == bot_step'.query
                own == SubscriptionOf(liquidity_monitoring, q["market_id"], q["chat_id"])
            IN  /\ SubscriptionOf(liquidity_monitoring', q["market_id"], q["chat_id"]) = {q}
                /\ liquidity_monitoring' \ {q} = liquidity_monitoring \ own
       /\ bot_step'.op = "remove_liquidity_monitor" =>
            LET q == bot_step'.query
                matched == IF "chat_id" \in DOMAIN q
                           THEN SubscriptionOf(liquidity_monitoring, q["market_id"],
                                               q["chat_id"])
                           ELSE SubscriptionsOn(liquidity_monitoring, q["market_id"])
            IN  /\ bot_step'.saved =>
                      (matched # {} /\ liquidity_monitoring' = liquidity_monitoring \ matched)
                /\ ~bot_step'.saved => liquidity_monitoring' = liquidity_monitoring
                /\ matched = {} => ~bot_step'.saved]_vars

\* Chat 1's subscription on m1 was removed and chat 2's subscription on m1
\* is still there.
C33_Witness ==
    /\ bot_step.op = "remove_liquidity_monitor"
    /\ bot_step.saved
    /\ bot_step.query = ("market_id" :> "m1" @@ "chat_id" :> 1)
    /\ SubscriptionOf(liquidity_monitoring, "m1", 1) = {}
    /\ SubscriptionOf(liquidity_monitoring, "m1", 2) # {}

\* C34: a page request that fails leaves the offset, the cursor and the
\* lists as they were and the loop asks again; when fetch_events or
\* fetch_markets returns, whatever requests failed on the way, it returns
\* the listing of the remote, as a run without failures does (C11).
C34_SameListAsFailureFree ==
    /\ [](pc = "events_fetched" => all_events = remote_events)
    /\ []((MarketsFetchReturned /\ step.op = "fetch_markets") =>
              all_markets = remote_markets)
    /\ [][(step'.op \in {"fetch_events", "fetch_markets"}
             /\ (step'.exc # "none" \/ step'.response # "none")) =>
                /\ pc' \in {pc, "crashed"}
                /\ UNCHANGED <<fetch_events_vars, fetch_markets_vars>>]_vars

\* The same when no request was answered with a server error: the failures
\* are those the except clauses of the loops retry.
C34_RetriedFailuresKeepList ==
    /\ []((pc = "events_fetched" /\ step.response = "none") =>
              all_events = remote_events)
    /\ []((MarketsFetchReturned /\ step.op = "fetch_markets") =>
              all_markets = remote_markets)
    /\ [][(step'.op \in {"fetch_events", "fetch_markets"} /\ step'.exc # "none") =>
                /\ pc' \in {pc, "crashed"}
                /\ UNCHANGED <<fetch_events_vars, fetch_markets_vars>>]_vars

\* Every remote event that passes validate_event has a document in
\* db['events'].
ValidEventsMirrored ==
    \A i \in 1..Len(remote_events) :
        validate_event(remote_events[i]) =>
            Matches(events_collection, "id", remote_events[i]["id"]) # {}

\* C35: in app.py with a document store, when the passes of the monitoring
\* loop complete again and again, from some pass on db['events'] holds every
\* valid event of the remote, invalid records before them notwithstanding;
\* and a pass adds at most one page of documents.
C35_EventuallyMirrored ==
    /\ (script = "app" /\ client /\ []<>(step.op = "process_new_markets")) =>
           <>[]ValidEventsMirrored
    /\ [][step'.op = "process_new_events" =>
            Cardinality(events_collection') <= Cardinality(events_collection) + BATCH_SIZE]_vars

\* A pass adds at most one page of documents.
C35_AtMostOnePage ==
    [][step'.op = "process_new_events" =>
          Cardinality(events_collection') <= Cardinality(events_collection) + BATCH_SIZE]_vars

\* In a pass of app.py: the markets stage starts only when process_new_events
\* returned; an events stage that raises ends the pass with no request for
\* markets made and db['markets'] as it was; db['markets'] is written by
\* process_new_markets only.
EventsBeforeMarkets ==
    [][script = "app" =>
          /\ (pc' = "get_latest_markets" /\ pc # "get_latest_markets") =>
                (pc = "process_events" /\ step'.op = "process_new_events"
                                       /\ step'.exc = "none")
          /\ (InMonitoring /\ step'.op \in {"get_latest_markets", "fetch_markets"}) =>
                pc \in {"get_latest_markets", "fetch_markets", "filter_markets"}
          /\ (step'.op \in {"get_latest_events", "process_new_events"}
                /\ step'.exc # "none") =>
                (pc' = "monitor" /\ UNCHANGED <<markets_collection, fetch_markets_vars,
                                                latest_markets>>)
          /\ (InMonitoring /\ markets_collection' # markets_collection) =>
                (pc = "process_markets" /\ step'.op = "process_new_markets")]_vars

\* C36 as stated: the stages of a pass are in that order, and the failure
\* counter goes back to 0 only at the end of a pass whose two stages
\* succeeded.
C36_ResetOnlyOnSuccess ==
    /\ EventsBeforeMarkets
    /\ [][(script = "app" /\ InMonitoring /\ consecutive_failures # 0
                          /\ consecutive_failures' = 0) =>
             (step'.op = "process_new_markets" /\ step'.exc = "none")]_vars

\* C36: the stages of a pass are in that order, and the failure counter
\* goes back to 0 only at the end of a pass whose two stages succeeded or in
\* a failed pass that reached max_consecutive_failures and printed the
\* CRITICAL alert.
C36_ResetOnSuccessOrAlert ==
    /\ EventsBeforeMarkets
    /\ [][(script = "app" /\ InMonitoring /\ consecutive_failures # 0
                          /\ consecutive_failures' = 0) =>
             \/ step'.op = "process_new_markets" /\ step'.exc = "none"
             \/ step'.exc # "none" /\ step'.alert]_vars

\* A pass of app.py failed in its events stage after a pass that had failed
\* too: the counter is 2 and db['markets'] was not touched.
C36_Witness ==
    /\ script = "app"
    /\ pc = "monitor"
    /\ step.op \in {"get_latest_events", "process_new_events"}
    /\ step.exc # "none"
    /\ consecutive_failures = 2

\* C37: a subscribe or unsubscribe handled while a send of the fan-out is
\* awaited does not end the poll in the set iterator, and when such a
\* fan-out ends every chat that was subscribed when it started and still
\* is was sent the alert or had its send fail.
C37_FanoutUndisturbed ==
    /\ [](bot_step.exc # "RuntimeError")
    /\ [][(job.pc = "fanout" /\ job.changed /\ job'.pc \notin {"fanout", "awaiting"}) =>
             (job.started \cap subscribed_chats) \subseteq (job.delivered \cup job.failed)]_vars

\* C38: a send of check_new_markets is for a market whose id is not in the
\* snapshot and whose startDate is at most 120 seconds before the poll's
\* now; while there is no snapshot no poll goes further than recording one,
\* from a non-empty answer, and nothing is sent; a later poll that ends
\* without an exception makes its answer the snapshot; and the snapshot
\* changes at no other step: not in a poll that raised, not in a poll
\* whose answer was empty.
C38_AlertConditions ==
    /\ [](previous_markets = NoSnapshot => job.pc = "idle")
    /\ [][bot_step'.op = "send_message" =>
             /\ previous_markets # NoSnapshot
             /\ job.market \notin previous_markets
             /\ job.market \in market_ids(job.current)
             /\ job.now - MarketOf(job.current, job.market)["startDate"] <= AlertWindow]_vars
    /\ [][previous_markets = NoSnapshot =>
             /\ UNCHANGED sent
             /\ previous_markets' # NoSnapshot =>
                   (gamma_markets # {} /\ previous_markets' = market_ids(gamma_markets))]_vars
    /\ [][(job.pc = "markets" /\ job'.pc = "idle" /\ bot_step'.exc = "none") =>
             previous_markets' = market_ids(job.current)]_vars
    /\ [][previous_markets' # previous_markets =>
             /\ bot_step'.op = "check_new_markets"
             /\ bot_step'.exc = "none"
             /\ previous_markets' # {}]_vars

\* An alert for m1 was delivered by a poll made 90 seconds after m1's start,
\* m1 not being in the snapshot.
C38_Witness ==
    /\ bot_step.op = "send_message"
    /\ bot_step.delivered
    /\ bot_step.market = "m1"
    /\ job.now = TickSeconds
    /\ "m1" \notin previous_markets

\* C39: when place_order has told the user that the order was placed, the
\* answer of the CLOB client being success, db.orders holds the record of
\* that order.
C39_RecordedBeforeTold ==
    [][(bot_step'.placed /\ bot_step'.api = "answered"
          /\ bot_step'.reply = "Order placed successfully!") =>
             /\ bot_step'.saved
             /\ Len(orders') = Len(orders) + 1
             /\ orders'[Len(orders')]["user_id"] = bot_step'.key[2]
             /\ orders'[Len(orders')]["status"] = "success"]_vars

\* The moves of a conversation: the entry, the four states in their order
\* (the price only after the amount of a limit order), and the end.
ConversationMoves ==
    {<<END, SELECTING_OUTCOME>>, <<SELECTING_OUTCOME, SELECTING_SIDE>>,
     <<SELECTING_SIDE, ENTERING_AMOUNT>>, <<ENTERING_AMOUNT, ENTERING_PRICE>>,
     <<ENTERING_AMOUNT, END>>, <<ENTERING_PRICE, END>>,
     <<SELECTING_OUTCOME, END>>, <<SELECTING_SIDE, END>>}

\* C40: the CLOB client is called only by the handler that ends the
\* conversation, from ENTERING_AMOUNT for a market order and from
\* ENTERING_PRICE for a limit order, so at most once in a conversation; by
\* then an outcome and a side, and the amount of a limit order, were given
\* in that conversation, whose states came in their order, and the order
\* carries a token id, an amount and, when limit, a price; cancel_order
\* never calls it.
C40_SubmittedOnceAtEnd ==
    /\ [][\A key \in DOMAIN conversations :
             conversations'[key] # conversations[key] =>
                 <<conversations[key], conversations'[key]>> \in ConversationMoves]_vars
    /\ [][bot_step'.submitted =>
             LET key == bot_step'.key
                 order_data == bot_step'.order
             IN  /\ bot_step'.op \in {"handle_amount_entry", "handle_price_entry"}
                 /\ conversations'[key] = END
                 /\ conversations[key] = (IF order_data["type"] = "market"
                                          THEN ENTERING_AMOUNT ELSE ENTERING_PRICE)
                 /\ {"selected_outcome", "side"} \subseteq DOMAIN entered[key]
                 /\ order_data["type"] = "limit" => "amount" \in DOMAIN entered[key]
                 /\ {"token_id", "outcome", "side", "amount"} \subseteq DOMAIN order_data
                 /\ order_data["type"] = "limit" => "price" \in DOMAIN order_data]_vars
    /\ [][bot_step'.op = "cancel_order" =>
             (~bot_step'.submitted /\ bot_step'.api = "none" /\ UNCHANGED orders)]_vars

\* A limit order was submitted by handle_price_entry, which ended the
\* conversation.
C40_Witness ==
    /\ bot_step.op = "handle_price_entry"
    /\ bot_step.submitted
    /\ bot_step.order["type"] = "limit"
    /\ bot_step.before = ENTERING_PRICE
    /\ conversations[bot_step.key] = END

====
